---- MODULE Spec2Model ----
(***************************************************************************)
(* soundmirror (tidal_serato_sync): the reconciliation engine, the mapping *)
(* store and the recovery pipeline, as a state machine.                    *)
(*                                                                         *)
(* Strings of the program are modelled by what the code does with them:    *)
(* a path is a record of the parts the code looks at (leading separator,   *)
(* BACKUP- prefix, TIDAL_IMPORT: prefix, stem, suffix).                    *)
(***************************************************************************)
EXTENDS Integers, Sequences, FiniteSets, TLC

\* ---------------------------------------------------------------- bounds
MaxId == 2          \* remote track ids are 1..MaxId
MaxStem == 3        \* local file stems are 1..MaxStem
MaxCrateLen == 2    \* entries per crate file
MaxOps == 2         \* commands run per behaviour
MaxFaults == 1      \* transient faults (failed remote read, download, move) per behaviour
MaxCmds == 2        \* store commands and outside events per behaviour
MaxIndex == 2       \* the index argument of add, rm, reset and match is 0..MaxIndex
MaxStoreOps == 4    \* calls of the mapping store per behaviour, when called on its own
MaxBlocks == 2      \* top-level blocks per crate file, when the codec is run on its own
MaxCodecOps == 2    \* calls of the crate codec per behaviour, when run on its own
MaxColumns == 3     \* columns of a CSV header, one more than the fields of a row
MaxRows == 2        \* rows of a CSV file after its header

Ids == 1..MaxId
Stems == 1..MaxStem

\* ------------------------------------------------------- NULLs, constants
NoId == 0           \* tidal_track_id IS NULL / Python None
NoKbps == 0         \* bitrate IS NULL / Python None
NoPlaylist == 0     \* tidal_playlist_id IS NULL
NoName == 0         \* display_name IS NULL, isrc IS NULL
FlacAssumedKbps == 900
Ceiling == 256      \* the --max-bitrate value the user passes, when one is passed

Exts == {"mp3", "flac"}
AllowedExts == {"flac", "mp3", "mp4", "m4a", "wav"}
Statuses == {"synced", "pending_download", "pending_cleanup", "failed"}
CratePaths == {"A.crate", "B.crate"}

\* ------------------------------------------------------------------ paths
NoPath == [slash |-> FALSE, stg |-> FALSE, bk |-> FALSE, imp |-> FALSE, n |-> 0, ext |-> ""]

\* A track path as Serato stores it in a crate: no leading separator.
TrackPath(n, ext) ==
    [slash |-> FALSE, stg |-> FALSE, bk |-> FALSE, imp |-> FALSE, n |-> n, ext |-> ext]

\* f"TIDAL_IMPORT:{tidal_id}"
PlaceholderPath(tidal_id) ==
    [slash |-> FALSE, stg |-> FALSE, bk |-> FALSE, imp |-> TRUE, n |-> tidal_id, ext |-> ""]

\* download_base_dir / new_files[0]: the path of a file of the staging directory
StagingPath(f) ==
    [slash |-> TRUE, stg |-> TRUE, bk |-> FALSE, imp |-> f.tag = "dl", n |-> f.n, ext |-> f.ext]

\* str.lstrip('/')
Lstrip(p) == [p EXCEPT !.slash = FALSE]

\* Path("/" + local_path) if not local_path.startswith("/") else Path(local_path)
FullPath(p) == [p EXCEPT !.slash = TRUE]

\* original_path_str.startswith("TIDAL_IMPORT:")
StartsWithImport(p) == (~p.slash) /\ (~p.stg) /\ (~p.bk) /\ p.imp

\* target_dir / (original_path_obj.stem + downloaded_file.suffix)
WithSuffix(p, ext) == [p EXCEPT !.ext = ext]

\* target_dir / f"BACKUP-{p.name}"
BackupOf(p) == [p EXCEPT !.bk = TRUE]

\* The directory a path lives in: a placeholder's "full path" is /TIDAL_IMPORT:<id>,
\* whose parent is the root; every track file lives in the music directory.
InRoot(p) == p.imp /\ ~p.stg

\* ------------------------------------------------------------ environment
\* What a file holds: the user's original audio, a download of a remote id,
\* or a file the user put into the staging directory.
OrigFile(n, ext) == [tag |-> "orig", n |-> n, ext |-> ext]
DlFile(tidal_id, ext) == [tag |-> "dl", n |-> tidal_id, ext |-> ext]
StagedFile(n, ext, caps) == [tag |-> "staged", n |-> n, ext |-> ext, caps |-> caps]

\* The bitrate ffprobe reports for the user's mp3 of stem n (NoKbps: nothing reported).
Mp3Kbps(n) == IF n % 3 = 0 THEN NoKbps ELSE IF n % 2 = 1 THEN 320 ELSE 192

\* Whether _clean_search_term changes the title guessed from the file name of stem n.
Dirty(n) == n % 2 = 0

\* The remote catalog holds the tracks 1..MaxId; the title of stem n names track n.
CatalogId(n) == IF n \in Ids THEN n ELSE NoId

VARIABLES
    disk,         \* the files on disk: absolute path -> what the file holds
    musicDir,     \* the directory of the track files: "present", "absent", "unwritable"
    staging,      \* the files of the download (staging) directory
    crates,       \* crate files on disk: crate path -> its track entries, in order
    playlists,    \* the remote playlists: playlist id -> its track ids, in order
    remoteMode,   \* "ok", "auth_fails" (authenticate() is false), "down" (calls fail)
    tracks,       \* table track_mapping: local_path -> row
    mirrors,      \* table mirror_config, in rowid order
    pendingAdds,  \* table pending_crate_additions: set of <<tidal_id, crate_path>>
    pc,           \* "idle", "sync" (inside run_sync), "recover" (inside run_recovery)
    syncArgs,     \* the arguments of the run_sync in progress
    syncQueue,    \* run_sync: the active mirrors not synced yet
    todo,         \* run_recovery: the commands not run yet
    downloaded,   \* remote ids a download was issued for in earlier recovery passes
    prevSync,     \* the last completed run_sync, while nothing changed since
    last,         \* what the last step did
    ops,          \* commands run so far
    faults,       \* transient faults so far
    daemon,       \* the daemon loop: "off", or what it does next: "sync", "recover", "sleep"
    listed,       \* what the last `list` printed, while no mirror was inserted or removed
    cmds          \* store commands and outside events so far

vars == <<disk, musicDir, staging, crates, playlists, remoteMode, tracks,
          mirrors, pendingAdds, pc, syncArgs, syncQueue, todo, downloaded, prevSync,
          last, ops, faults, daemon, listed, cmds>>

\* --------------------------------------------------------- sequence helpers
Range(s) == {s[i] : i \in 1..Len(s)}

RECURSIVE SeqFilterNotIn(_, _)
SeqFilterNotIn(s, S) ==
    IF s = <<>> THEN <<>>
    ELSE IF Head(s) \in S THEN SeqFilterNotIn(Tail(s), S)
         ELSE <<Head(s)>> \o SeqFilterNotIn(Tail(s), S)

SeqsUpTo(S, k) == UNION {[1..m -> S] : m \in 0..k}

\* ------------------------------------------------------------ the store
NewRow(tidal_id, isrc, bitrate, display_name) ==
    [tidal_id |-> tidal_id, isrc |-> isrc, bitrate |-> bitrate, status |-> "synced",
     downloaded_path |-> NoPath, display_name |-> display_name]

\* INSERT OR REPLACE: the row is rewritten from the arguments alone.
UpsertReplacesRow(t, local_path, tidal_id, isrc, bitrate, display_name) ==
    [k \in DOMAIN t \cup {local_path} |->
        IF k = local_path THEN NewRow(tidal_id, isrc, bitrate, display_name) ELSE t[k]]

\* An upsert whose ON CONFLICT clause sets tidal_track_id to NULL.
UpsertClearsIdOnConflict(t, local_path, tidal_id, isrc, bitrate, display_name) ==
    IF local_path \in DOMAIN t
    THEN [t EXCEPT ![local_path] =
            [@ EXCEPT !.tidal_id = NoId,
                      !.isrc = isrc,
                      !.bitrate = IF bitrate # NoKbps THEN bitrate ELSE @,
                      !.display_name = IF display_name # NoName THEN display_name ELSE @]]
    ELSE (local_path :> NewRow(tidal_id, isrc, bitrate, display_name)) @@ t

upsert_track(t, local_path, tidal_id, isrc, bitrate, display_name) ==
    IF local_path \in DOMAIN t
    THEN [t EXCEPT ![local_path] =
            [@ EXCEPT !.tidal_id = tidal_id,
                      !.isrc = isrc,
                      !.bitrate = IF bitrate # NoKbps THEN bitrate ELSE @,
                      !.display_name = IF display_name # NoName THEN display_name ELSE @]]
    ELSE (local_path :> NewRow(tidal_id, isrc, bitrate, display_name)) @@ t

\* A status update that writes downloaded_path whether or not one is given.
UpdateStatusWritesPath(t, local_path, status, downloaded_path) ==
    IF local_path \notin DOMAIN t THEN t
    ELSE [t EXCEPT ![local_path] = [@ EXCEPT !.status = status,
                                             !.downloaded_path = downloaded_path]]

\* A store whose status update never resets a row to synced.
UpdateStatusKeepsPending(t, local_path, status, downloaded_path) ==
    IF local_path \notin DOMAIN t \/ status = "synced" THEN t
    ELSE [t EXCEPT ![local_path] = [@ EXCEPT !.status = status]]

update_track_status(t, local_path, status, downloaded_path) ==
    IF local_path \notin DOMAIN t THEN t
    ELSE IF downloaded_path # NoPath
         THEN [t EXCEPT ![local_path] = [@ EXCEPT !.status = status,
                                                  !.downloaded_path = downloaded_path]]
         ELSE [t EXCEPT ![local_path] = [@ EXCEPT !.status = status]]

\* {'tidal_id', 'bitrate'} of the row, or None
get_track_info(t, local_path) ==
    IF local_path \in DOMAIN t
    THEN [found |-> TRUE, tidal_id |-> t[local_path].tidal_id, bitrate |-> t[local_path].bitrate]
    ELSE [found |-> FALSE, tidal_id |-> NoId, bitrate |-> NoKbps]

MirrorIndex(ms, crate_path) ==
    IF \E i \in 1..Len(ms) : ms[i].crate_path = crate_path
    THEN CHOOSE i \in 1..Len(ms) : ms[i].crate_path = crate_path
    ELSE 0

\* INSERT OR REPLACE: the row of a registered crate is deleted and inserted anew.
AddMirrorReplacesRow(ms, crate_path, playlist_id, is_active) ==
    Append(SelectSeq(ms, LAMBDA m : m.crate_path # crate_path),
           [crate_path |-> crate_path, playlist_id |-> playlist_id, is_active |-> is_active])

\* An upsert whose DO UPDATE forgets tidal_playlist_id.
AddMirrorKeepsPlaylistId(ms, crate_path, playlist_id, is_active) ==
    IF MirrorIndex(ms, crate_path) # 0
    THEN [ms EXCEPT ![MirrorIndex(ms, crate_path)] = [@ EXCEPT !.is_active = is_active]]
    ELSE Append(ms, [crate_path |-> crate_path, playlist_id |-> playlist_id,
                     is_active |-> is_active])

add_mirror(ms, crate_path, playlist_id, is_active) ==
    IF MirrorIndex(ms, crate_path) # 0
    THEN [ms EXCEPT ![MirrorIndex(ms, crate_path)] =
            [@ EXCEPT !.playlist_id = playlist_id, !.is_active = is_active]]
    ELSE Append(ms, [crate_path |-> crate_path, playlist_id |-> playlist_id,
                     is_active |-> is_active])

\* A delete that forgets its WHERE clause.
RemoveEveryMirror(ms, crate_path) == <<>>

remove_mirror(ms, crate_path) ==
    SelectSeq(ms, LAMBDA m : m.crate_path # crate_path)

\* A query without its WHERE is_active = 1.
GetMirrorsIgnoresFlag(ms, only_active) == ms

get_mirrors(ms, only_active) ==
    IF only_active THEN SelectSeq(ms, LAMBDA m : m.is_active) ELSE ms

add_pending_crate_addition(pa, tidal_id, crate_path) == pa \cup {<<tidal_id, crate_path>>}

get_pending_crate_additions(pa, tidal_id) == {e[2] : e \in {x \in pa : x[1] = tidal_id}}

remove_pending_crate_additions(pa, tidal_id) == {x \in pa : x[1] # tidal_id}

\* ------------------------------------------------------ the remote service
\* A login that always succeeds.
AuthenticateAlways == TRUE

\* TidalManager.authenticate
authenticate == remoteMode # "auth_fails"

\* TidalManager.search_track on a title: a dirty title matches nothing.
search_track(stem, cleaned) ==
    IF Dirty(stem) /\ ~cleaned THEN NoId ELSE CatalogId(stem)

\* TidalManager.get_playlist_tracks: every error is swallowed into an empty list.
get_playlist_tracks(pls, playlist_id, fetchOk) ==
    IF fetchOk /\ remoteMode = "ok" /\ playlist_id \in DOMAIN pls THEN pls[playlist_id] ELSE <<>>

\* An add call that trusts its caller: no second look at the playlist.
AddWithoutRecheck(pls, playlist_id, track_ids) ==
    IF remoteMode = "ok" /\ playlist_id \in DOMAIN pls
    THEN [pls |-> [pls EXCEPT ![playlist_id] = @ \o track_ids], added |-> track_ids,
          before |-> Range(pls[playlist_id])]
    ELSE [pls |-> pls, added |-> <<>>, before |-> {}]

\* TidalManager.add_tracks_to_playlist: re-reads the playlist, adds what it lacks.
add_tracks_to_playlist(pls, playlist_id, track_ids) ==
    IF remoteMode = "ok" /\ playlist_id \in DOMAIN pls
    THEN LET to_add == SeqFilterNotIn(track_ids, Range(pls[playlist_id]))
         IN [pls |-> [pls EXCEPT ![playlist_id] = @ \o to_add], added |-> to_add,
             before |-> Range(pls[playlist_id])]
    ELSE [pls |-> pls, added |-> <<>>, before |-> {}]

\* SyncEngine.extract_bitrate
extract_bitrate(content) ==
    IF content.ext = "flac" THEN FlacAssumedKbps
    ELSE IF content.tag = "orig" THEN Mp3Kbps(content.n) ELSE 320

\* ------------------------------------------------------------ sync_mirror
\* One crate entry of the loop of sync_mirror (step 3, Serato -> Tidal).
ScanEntry(acc, local_path, max_bitrate, force_update) ==
    LET db_path == Lstrip(local_path)
        track_info == get_track_info(acc.tracks, db_path)
        full_path == FullPath(local_path)
        exists == full_path \in DOMAIN disk
        probing == exists /\ track_info.bitrate = NoKbps
        bitrate == IF probing THEN extract_bitrate(disk[full_path]) ELSE track_info.bitrate
        t1 == IF probing /\ bitrate # NoKbps
              THEN upsert_track(acc.tracks, db_path, track_info.tidal_id, NoName, bitrate, NoName)
              ELSE acc.tracks
    IN  IF max_bitrate # NoKbps /\ bitrate # NoKbps /\ bitrate > max_bitrate
        THEN [acc EXCEPT !.tracks = t1, !.skipped = @ \cup {db_path}]
        ELSE
        LET first == search_track(local_path.n, FALSE)
            t_track == IF first # NoId THEN first
                       ELSE IF Dirty(local_path.n) THEN search_track(local_path.n, TRUE)
                       ELSE NoId
            searching == track_info.tidal_id = NoId
            tidal_id == IF searching THEN t_track ELSE track_info.tidal_id
            t2 == IF searching /\ t_track # NoId
                  THEN upsert_track(t1, db_path, tidal_id, NoName, bitrate, NoName)
                  ELSE t1
        IN  IF tidal_id = NoId
            THEN [acc EXCEPT !.tracks = t2, !.orphaned = Append(@, db_path)]
            ELSE IF ~exists
            THEN [acc EXCEPT !.tracks = update_track_status(t2, db_path, "pending_download", NoPath),
                             !.found = Append(@, tidal_id),
                             !.marked = @ \cup {db_path},
                             !.dir = IF @ = "absent" THEN "present" ELSE @]
            ELSE IF force_update
            THEN [acc EXCEPT !.tracks = update_track_status(t2, db_path, "pending_download", NoPath),
                             !.found = Append(@, tidal_id),
                             !.marked = @ \cup {db_path}]
            ELSE [acc EXCEPT !.tracks = update_track_status(t2, db_path, "synced", NoPath),
                             !.found = Append(@, tidal_id)]

RECURSIVE ScanCrate(_, _, _, _)
ScanCrate(entries, acc, max_bitrate, force_update) ==
    IF entries = <<>> THEN acc
    ELSE ScanCrate(Tail(entries), ScanEntry(acc, Head(entries), max_bitrate, force_update),
                   max_bitrate, force_update)

\* A step 4 that compares ids of different types: no playlist track looks matched.
ImportEntryTypeMismatch(acc, tidal_id, found_on_tidal, crate_path) ==
    LET placeholder_path == PlaceholderPath(tidal_id)
        t1 == upsert_track(acc.tracks, placeholder_path, tidal_id, NoName, NoKbps, tidal_id)
    IN [acc EXCEPT !.tracks = update_track_status(t1, placeholder_path, "pending_download", NoPath),
                   !.pendingAdds = add_pending_crate_addition(@, tidal_id, crate_path),
                   !.marked = @ \cup {placeholder_path},
                   !.imported = @ \cup {tidal_id}]

\* A step 4 that registers the placeholder and forgets the crate it is meant for.
ImportEntryNoPairing(acc, tidal_id, found_on_tidal, crate_path) ==
    IF tidal_id \in Range(found_on_tidal) THEN acc
    ELSE LET placeholder_path == PlaceholderPath(tidal_id)
             t1 == upsert_track(acc.tracks, placeholder_path, tidal_id, NoName, NoKbps, tidal_id)
         IN [acc EXCEPT !.tracks = update_track_status(t1, placeholder_path, "pending_download", NoPath),
                        !.marked = @ \cup {placeholder_path},
                        !.imported = @ \cup {tidal_id}]

\* One remote playlist track of the loop of step 4 (Tidal -> Serato).
ImportEntry(acc, tidal_id, found_on_tidal, crate_path) ==
    IF tidal_id \in Range(found_on_tidal) THEN acc
    ELSE LET placeholder_path == PlaceholderPath(tidal_id)
             t1 == upsert_track(acc.tracks, placeholder_path, tidal_id, NoName, NoKbps, tidal_id)
         IN [acc EXCEPT !.tracks = update_track_status(t1, placeholder_path, "pending_download", NoPath),
                        !.pendingAdds = add_pending_crate_addition(@, tidal_id, crate_path),
                        !.marked = @ \cup {placeholder_path},
                        !.imported = @ \cup {tidal_id}]

RECURSIVE ImportLoop(_, _, _, _)
ImportLoop(playlist_tracks, acc, found_on_tidal, crate_path) ==
    IF playlist_tracks = <<>> THEN acc
    ELSE ImportLoop(Tail(playlist_tracks),
                    ImportEntry(acc, Head(playlist_tracks), found_on_tidal, crate_path),
                    found_on_tidal, crate_path)

\* ids_to_add = [tid for tid in found_on_tidal if str(tid) not in tidal_playlist_ids]
IdsToAdd(found_on_tidal, tidal_playlist_ids) == SeqFilterNotIn(found_on_tidal, tidal_playlist_ids)

\* The id the remote service gives a new playlist: one it never gave before.
NewPlaylistId(pls) ==
    LET used == DOMAIN pls \cup {mirrors[i].playlist_id : i \in 1..Len(mirrors)} \cup {NoPlaylist}
    IN  1 + CHOOSE m \in used : \A u \in used : u <= m

\* SyncEngine.sync_mirror on one entry of active_mirrors. The result names what the
\* call raised ("" when it returned) and every piece of state it leaves behind.
sync_mirror(mirror, max_bitrate, force_update, fetchOk, createOk) ==
    LET crate_path == mirror.crate_path
        same == [raised |-> "", created |-> FALSE, tracks |-> tracks, mirrors |-> mirrors,
                 playlists |-> playlists, pendingAdds |-> pendingAdds, dir |-> musicDir,
                 found |-> <<>>, orphaned |-> <<>>, skipped |-> {}, marked |-> {},
                 imported |-> {}, snapshot |-> <<>>, ids_to_add |-> <<>>, added |-> <<>>,
                 before |-> {}, playlist_id |-> mirror.playlist_id]
    IN  IF crate_path \notin DOMAIN crates
        THEN [same EXCEPT !.raised = "FileNotFoundError"]
        ELSE IF mirror.playlist_id = NoPlaylist /\ (remoteMode # "ok" \/ ~createOk)
        THEN same   \* create_playlist returned None: logged, and the pass ends
        ELSE
        LET creating == mirror.playlist_id = NoPlaylist
            playlist_id == IF creating THEN NewPlaylistId(playlists) ELSE mirror.playlist_id
            pls1 == IF creating THEN (playlist_id :> <<>>) @@ playlists ELSE playlists
            ms1 == IF creating THEN add_mirror(mirrors, crate_path, playlist_id, TRUE) ELSE mirrors
            playlist_tracks == get_playlist_tracks(pls1, playlist_id, fetchOk)
            tidal_playlist_ids == Range(playlist_tracks)
            acc0 == [tracks |-> tracks, found |-> <<>>, orphaned |-> <<>>, skipped |-> {},
                     marked |-> {}, dir |-> musicDir, pendingAdds |-> pendingAdds,
                     imported |-> {}]
            acc1 == ScanCrate(crates[crate_path], acc0, max_bitrate, force_update)
            ids_to_add == IdsToAdd(acc1.found, tidal_playlist_ids)
            call == IF ids_to_add # <<>>
                    THEN add_tracks_to_playlist(pls1, playlist_id, ids_to_add)
                    ELSE [pls |-> pls1, added |-> <<>>, before |-> {}]
            acc2 == ImportLoop(playlist_tracks, acc1, acc1.found, crate_path)
        IN  [raised |-> "", created |-> creating, tracks |-> acc2.tracks, mirrors |-> ms1,
             playlists |-> call.pls, pendingAdds |-> acc2.pendingAdds, dir |-> acc2.dir,
             found |-> acc2.found, orphaned |-> acc2.orphaned, skipped |-> acc2.skipped,
             marked |-> acc2.marked, imported |-> acc2.imported, snapshot |-> playlist_tracks,
             ids_to_add |-> ids_to_add, added |-> call.added, before |-> call.before,
             playlist_id |-> playlist_id]

\* ---------------------------------------------------------- the crate codec
\* CrateHandler.replace_track_path, on the track entries of one crate.
replace_track_path(entries, old_path, new_path) ==
    [i \in 1..Len(entries) |->
        IF Lstrip(entries[i]) = Lstrip(old_path) THEN Lstrip(new_path) ELSE entries[i]]

\* CrateHandler.update_track_path_globally: every crate of the Subcrates directory.
update_track_path_globally(cs, old_path, new_path) ==
    [c \in DOMAIN cs |-> replace_track_path(cs[c], old_path, new_path)]

\* The number update_track_path_globally returns.
modified_count(cs, old_path, new_path) ==
    Cardinality({c \in DOMAIN cs : replace_track_path(cs[c], old_path, new_path) # cs[c]})

\* len(crates_modified) in run_recovery: crates_modified is that number, an int.
LenOfCratesModified(crates_modified) == "TypeError"

\* ------------------------------------------------------------ run_recovery
\* SyncEngine.get_recovery_commands: one (comment, command) pair per pending row.
get_recovery_commands(t) ==
    {[path |-> FullPath(k), tidal_id |-> t[k].tidal_id] :
        k \in {x \in DOMAIN t : t[x].status = "pending_download"}}

\* Path.rename(target): the target is replaced when it exists.
Rename(d, from, to) ==
    [p \in (DOMAIN d \ {from}) \cup {to} |-> IF p = to THEN d[from] ELSE d[p]]

\* A scan that compares the stems as they are written.
StemMatchesCaseSensitive(stg, original_path) ==
    {f \in stg : /\ f.tag = "staged" /\ f.ext \in AllowedExts /\ ~f.caps
                 /\ ~original_path.imp /\ f.n = original_path.n}

\* Files of the staging directory with an allowed suffix whose stem, in lower case,
\* equals the stem of the original path (n is the stem in lower case, caps whether
\* the file name is written in capitals).
StemMatches(stg, original_path) ==
    {f \in stg : /\ f.tag = "staged" /\ f.ext \in AllowedExts
                 /\ ~original_path.imp /\ f.n = original_path.n}

\* What the download command leaves in the staging directory.
AfterDownload(stg, tidal_id, dl) ==
    IF dl \in Exts /\ tidal_id # NoId THEN stg \cup {DlFile(tidal_id, dl)} ELSE stg

\* The body of the loop of run_recovery for one command. dl is what the downloader
\* does ("nonzero": exits nonzero; "nofile": exits 0 and writes nothing; an extension:
\* writes a file with it); pick is the staged file the scan meets first, when one
\* matches; moveOk is whether shutil.move succeeds.
recover_track(cmd, dl, pick, moveOk) ==
    LET original_path == cmd.path
        tidal_id == cmd.tidal_id
        key == Lstrip(original_path)
        is_tidal_import == StartsWithImport(original_path)
        same == [aborted |-> FALSE, tracks |-> tracks, disk |-> disk, staging |-> staging,
                 crates |-> crates, dir |-> musicDir, pendingAdds |-> pendingAdds,
                 issued |-> FALSE, obtained |-> FALSE, moved |-> FALSE, upgrade |-> FALSE,
                 had_original |-> original_path \in DOMAIN disk, had_target |-> FALSE,
                 final |-> NoPath, file |-> DlFile(NoId, ""), failure |-> "",
                 import |-> is_tidal_import]
        failed(r, why) == [r EXCEPT !.tracks = update_track_status(@, key, "failed", NoPath),
                                    !.failure = why]
    IN  IF ~is_tidal_import /\ ~InRoot(original_path) /\ musicDir = "unwritable"
        THEN [same EXCEPT !.aborted = TRUE, !.failure = "mkdir"]
        ELSE
        LET r0 == [same EXCEPT !.dir = IF ~is_tidal_import /\ ~InRoot(original_path)
                                         /\ @ = "absent" THEN "present" ELSE @]
            found_file == StemMatches(staging, original_path) # {}
            stg1 == IF found_file THEN staging ELSE AfterDownload(staging, tidal_id, dl)
            new_files == IF found_file THEN {pick} ELSE stg1 \ staging
            r1 == [r0 EXCEPT !.issued = ~found_file, !.staging = stg1]
        IN  IF ~found_file /\ dl = "nonzero" THEN failed(r1, "CalledProcessError")
            ELSE IF new_files = {} THEN failed(r1, "no new file")
            ELSE
            LET downloaded_file == CHOOSE f \in new_files : TRUE
                r2 == [r1 EXCEPT !.obtained = TRUE, !.file = downloaded_file]
            IN  IF is_tidal_import
                THEN \* the file stays in the staging directory
                     LET pending_crates == get_pending_crate_additions(pendingAdds, tidal_id)
                         final_target_path == StagingPath(downloaded_file)
                         real == Lstrip(final_target_path)
                         t1 == update_track_status(tracks, original_path, "synced", final_target_path)
                         t2 == upsert_track(t1, real, tidal_id, NoName, NoKbps, NoName)
                         t3 == update_track_status(t2, real, "synced", final_target_path)
                     IN  IF pending_crates # {}
                         THEN \* CrateHandler has no add_track_to_crate
                              failed(r2, "AttributeError")
                         ELSE [r2 EXCEPT !.tracks = t3,
                                         !.pendingAdds = remove_pending_crate_additions(@, tidal_id)]
                ELSE
                LET final_target_path == WithSuffix(original_path, downloaded_file.ext)
                    had_target == final_target_path \in DOMAIN disk
                    d1 == IF had_target
                          THEN Rename(disk, final_target_path, BackupOf(final_target_path))
                          ELSE disk
                    is_upgrade == original_path \in DOMAIN d1 /\ original_path # final_target_path
                    backup_path_original == BackupOf(original_path)
                    d2 == IF is_upgrade THEN Rename(d1, original_path, backup_path_original) ELSE d1
                    r3 == [r2 EXCEPT !.disk = d2, !.upgrade = is_upgrade, !.had_target = had_target,
                                     !.final = final_target_path]
                IN  IF ~moveOk THEN failed(r3, "move")
                    ELSE
                    LET d3 == (final_target_path :> downloaded_file) @@ d2
                        r4 == [r3 EXCEPT !.disk = d3, !.staging = @ \ {downloaded_file},
                                         !.moved = TRUE]
                    IN  IF original_path # final_target_path
                        THEN LET crates_modified ==
                                     modified_count(crates, original_path, final_target_path)
                                 r5 == [r4 EXCEPT !.crates = update_track_path_globally(
                                                       @, original_path, final_target_path)]
                             IN  IF LenOfCratesModified(crates_modified) = "TypeError"
                                 THEN failed(r5, "TypeError")
                                 ELSE IF is_upgrade
                                 THEN [r5 EXCEPT !.tracks =
                                        update_track_status(
                                          upsert_track(
                                            update_track_status(@, key, "pending_cleanup",
                                                                backup_path_original),
                                            Lstrip(final_target_path), tidal_id, NoName, NoKbps, NoName),
                                          Lstrip(final_target_path), "synced", final_target_path)]
                                 ELSE [r5 EXCEPT !.tracks =
                                        update_track_status(@, key, "synced", final_target_path)]
                        ELSE [r4 EXCEPT !.tracks =
                                update_track_status(@, key, "synced", final_target_path)]

\* ------------------------------------------------------------------ state
NoLast ==
    [op |-> "init", crate_path |-> "", playlist_id |-> NoPlaylist, fetchOk |-> TRUE,
     createOk |-> TRUE, created |-> FALSE,
     markers |-> <<>>, second |-> <<>>,
     content |-> <<>>, entries |-> <<>>, swallowed |-> FALSE, old_path |-> <<>>,
     new_path |-> <<>>, returned |-> FALSE, raised |-> "", max_bitrate |-> NoKbps, force_update |-> FALSE,
     found |-> <<>>, orphaned |-> <<>>, skipped |-> {}, marked |-> {}, imported |-> {},
     snapshot |-> <<>>, added |-> <<>>, before |-> {},
     path |-> NoPath, tidal_id |-> NoId, issued |-> FALSE, obtained |-> FALSE,
     moved |-> FALSE, upgrade |-> FALSE, had_original |-> FALSE, had_target |-> FALSE,
     final |-> NoPath, file |-> DlFile(NoId, ""), failure |-> "", aborted |-> FALSE,
     again |-> FALSE, left |-> 0,
     index |-> 0, planned |-> <<>>, visited |-> <<>>, acted |-> FALSE,
     isrc |-> NoName, bitrate |-> NoKbps, display_name |-> NoName, status |-> "",
     downloaded_path |-> NoPath]

NoSync == [valid |-> FALSE, max_bitrate |-> NoKbps, force_update |-> FALSE]
NoArgs == [max_bitrate |-> NoKbps, force_update |-> FALSE, repeat |-> FALSE, clean |-> TRUE,
           planned |-> <<>>, visited |-> <<>>]

\* Nothing listed yet, or a mirror was inserted or removed since.
NoListing == [valid |-> FALSE, only_active |-> FALSE, shown |-> {}, rows |-> <<>>]

CratePathsOf(ms) == [i \in 1..Len(ms) |-> ms[i].crate_path]

\* The listing stays the one the user saw while no row of mirror_config is inserted or
\* deleted.
KeepListing(ms) ==
    IF Range(CratePathsOf(ms)) = Range(CratePathsOf(mirrors)) THEN listed ELSE NoListing

CrateEntries == {TrackPath(n, "mp3") : n \in Stems}
StemsOf(entries) == {entries[i].n : i \in 1..Len(entries)}

\* What the program is started on. Crate A is mirrored to remote playlist 1, which may
\* already hold a track; crate B was just added as a mirror (no playlist yet) and is
\* empty or shares the first track of A. The mp3 of a crate entry may be missing, a
\* flac of the same stem may already lie beside it, and the music directory may be
\* missing or read-only when it holds no file. The mapping store is empty.
InitEnv ==
    /\ \E a \in SeqsUpTo(CrateEntries, MaxCrateLen) :
       \E b \in {<<>>} \cup {<<a[i]>> : i \in {1} \cap DOMAIN a} :
          crates = [c \in CratePaths |-> IF c = "A.crate" THEN a ELSE b]
    /\ \E mp3s \in SUBSET StemsOf(crates["A.crate"]) :
       \E flacs \in {S \in SUBSET StemsOf(crates["A.crate"]) : Cardinality(S) <= 1} :
          LET present == {FullPath(TrackPath(n, "mp3")) : n \in mp3s}
                         \cup {FullPath(TrackPath(n, "flac")) : n \in flacs}
          IN  /\ disk = [p \in present |-> OrigFile(p.n, p.ext)]
              /\ musicDir \in (IF present = {} THEN {"present", "absent", "unwritable"}
                               ELSE {"present"})
    /\ staging = {}
    /\ \E pl \in SeqsUpTo(Ids, 1) : playlists = (1 :> pl)
    /\ remoteMode = "ok"
    /\ tracks = <<>>
    /\ mirrors = <<[crate_path |-> "A.crate", playlist_id |-> 1, is_active |-> TRUE],
                   [crate_path |-> "B.crate", playlist_id |-> NoPlaylist, is_active |-> TRUE]>>
    /\ pendingAdds = {}
    /\ pc = "idle"
    /\ syncArgs = NoArgs
    /\ syncQueue = <<>>
    /\ todo = {}
    /\ downloaded = [earlier |-> {}, now |-> {}]
    /\ prevSync = NoSync
    /\ last = NoLast
    /\ ops = 0
    /\ listed = NoListing
    /\ cmds = 0

\* Commands typed one at a time.
Init ==
    /\ InitEnv
    /\ faults = 0
    /\ daemon = "off"

\* ---------------------------------------------------------------- run_sync
\* SyncEngine.run_sync up to its loop: authenticate, read the active mirrors.
run_sync(max_bitrate, force_update) ==
    /\ pc = "idle"
    /\ LET active_mirrors == get_mirrors(mirrors, TRUE)
           this == [valid |-> TRUE, max_bitrate |-> max_bitrate, force_update |-> force_update]
       IN  IF (~authenticate) \/ active_mirrors = <<>>
           THEN /\ UNCHANGED <<pc, syncQueue, syncArgs>>
                /\ prevSync' = this
                /\ last' = [NoLast EXCEPT !.op = "sync_nothing",
                                          !.max_bitrate = max_bitrate,
                                          !.force_update = force_update]
           ELSE /\ pc' = "sync"
                /\ syncQueue' = active_mirrors
                /\ syncArgs' = [max_bitrate |-> max_bitrate, force_update |-> force_update,
                                repeat |-> prevSync = this, clean |-> TRUE,
                                planned |-> CratePathsOf(active_mirrors), visited |-> <<>>]
                /\ prevSync' = NoSync
                /\ last' = [NoLast EXCEPT !.op = "sync_start",
                                          !.max_bitrate = max_bitrate,
                                          !.force_update = force_update]
    /\ UNCHANGED <<disk, musicDir, staging, crates, playlists, remoteMode, tracks,
                   mirrors, pendingAdds, todo, downloaded, faults, listed, cmds>>

\* cli: sync [--max-bitrate N] [--force-update]
RunSync(max_bitrate, force_update) ==
    /\ daemon = "off"
    /\ ops < MaxOps
    /\ ops' = ops + 1
    /\ run_sync(max_bitrate, force_update)
    /\ UNCHANGED daemon

\* One turn of the loop of run_sync: sync_mirror on the next active mirror, and the
\* handlers around it. One remote call of the pass may fail (a transient fault): the
\* creation of the playlist, or the read of the playlist's tracks.
SyncMirrorStep ==
    /\ pc = "sync"
    /\ syncQueue # <<>>
    /\ \E mirror \in {Head(syncQueue)} :
       \E fetchOk \in (IF faults < MaxFaults THEN BOOLEAN ELSE {TRUE}) :
       \E createOk \in (IF faults < MaxFaults /\ fetchOk /\ mirror.playlist_id = NoPlaylist
                         THEN BOOLEAN ELSE {TRUE}) :
       \E r \in {sync_mirror(mirror, syncArgs.max_bitrate, syncArgs.force_update, fetchOk,
                              createOk)} :
        LET clean == syncArgs.clean /\ fetchOk /\ createOk /\ r.raised = ""
            done == Tail(syncQueue) = <<>>
            visited == Append(syncArgs.visited, mirror.crate_path)
        IN  /\ tracks' = r.tracks
            /\ playlists' = r.playlists
            /\ pendingAdds' = r.pendingAdds
            /\ musicDir' = r.dir
            /\ mirrors' = IF r.raised = "FileNotFoundError"
                          THEN remove_mirror(mirrors, mirror.crate_path)
                          ELSE r.mirrors
            /\ syncQueue' = Tail(syncQueue)
            /\ pc' = IF done THEN "idle" ELSE "sync"
            /\ listed' = KeepListing(mirrors')
            /\ syncArgs' = IF done THEN NoArgs
                           ELSE [syncArgs EXCEPT !.clean = clean, !.visited = visited]
            /\ prevSync' = IF done
                           THEN [valid |-> clean, max_bitrate |-> syncArgs.max_bitrate,
                                 force_update |-> syncArgs.force_update]
                           ELSE NoSync
            /\ faults' = IF fetchOk /\ createOk THEN faults ELSE faults + 1
            /\ last' = [NoLast EXCEPT !.op = "sync_mirror",
                                      !.crate_path = mirror.crate_path,
                                      !.playlist_id = r.playlist_id,
                                      !.fetchOk = fetchOk,
                                      !.createOk = createOk,
                                      !.created = r.created,
                                      !.raised = r.raised,
                                      !.max_bitrate = syncArgs.max_bitrate,
                                      !.force_update = syncArgs.force_update,
                                      !.found = r.found,
                                      !.orphaned = r.orphaned,
                                      !.skipped = r.skipped,
                                      !.marked = r.marked,
                                      !.imported = r.imported,
                                      !.snapshot = r.snapshot,
                                      !.added = r.added,
                                      !.before = r.before,
                                      !.again = syncArgs.repeat /\ clean,
                                      !.planned = syncArgs.planned,
                                      !.visited = visited]
    /\ UNCHANGED <<disk, staging, crates, remoteMode, todo, downloaded, ops, daemon, cmds>>

\* ------------------------------------------------------------ run_recovery
\* SyncEngine.run_recovery up to its loop.
run_recovery ==
    /\ pc = "idle"
    /\ LET commands == get_recovery_commands(tracks)
       IN  /\ todo' = commands
           /\ pc' = IF commands = {} THEN "idle" ELSE "recover"
           /\ last' = [NoLast EXCEPT !.op = "recover_start", !.left = Cardinality(commands)]
    /\ downloaded' = [earlier |-> downloaded.earlier \cup downloaded.now, now |-> {}]
    /\ prevSync' = NoSync
    /\ UNCHANGED <<disk, musicDir, staging, crates, playlists, remoteMode, tracks,
                   mirrors, pendingAdds, syncArgs, syncQueue, faults, listed, cmds>>

\* cli: recover
RunRecovery ==
    /\ daemon = "off"
    /\ ops < MaxOps
    /\ ops' = ops + 1
    /\ run_recovery
    /\ UNCHANGED daemon

\* What the downloader and the move may do: succeed, or fail while faults are left.
Outcomes ==
    {[dl |-> e, moveOk |-> TRUE] : e \in Exts}
    \cup (IF faults < MaxFaults
          THEN {[dl |-> d, moveOk |-> TRUE] : d \in {"nonzero", "nofile"}}
               \cup {[dl |-> e, moveOk |-> FALSE] : e \in Exts}
          ELSE {})

\* One turn of the loop of run_recovery. An error raised before the try block of the
\* turn (the mkdir of the target directory) leaves run_recovery.
RecoverTrack ==
    /\ pc = "recover"
    /\ todo # {}
    /\ \E cmd \in todo, o \in Outcomes :
       \E pick \in (IF StemMatches(staging, cmd.path) = {} THEN {DlFile(NoId, "")}
                    ELSE StemMatches(staging, cmd.path)) :
       \E r \in {recover_track(cmd, o.dl, pick, o.moveOk)} :
        LET rest == IF r.aborted THEN {} ELSE todo \ {cmd}
        IN  /\ tracks' = r.tracks
            /\ disk' = r.disk
            /\ staging' = r.staging
            /\ crates' = r.crates
            /\ musicDir' = r.dir
            /\ pendingAdds' = r.pendingAdds
            /\ todo' = rest
            /\ pc' = IF rest = {} THEN "idle" ELSE "recover"
            /\ downloaded' = IF r.issued
                             THEN [downloaded EXCEPT !.now = @ \cup {cmd.tidal_id}]
                             ELSE downloaded
            /\ faults' = IF o.dl \in Exts /\ o.moveOk THEN faults ELSE faults + 1
            /\ last' = [NoLast EXCEPT !.op = "recover_track",
                                      !.path = cmd.path,
                                      !.tidal_id = cmd.tidal_id,
                                      !.issued = r.issued,
                                      !.obtained = r.obtained,
                                      !.moved = r.moved,
                                      !.upgrade = r.upgrade,
                                      !.had_original = r.had_original,
                                      !.had_target = r.had_target,
                                      !.final = r.final,
                                      !.file = r.file,
                                      !.failure = r.failure,
                                      !.aborted = r.aborted,
                                      !.again = r.issued /\ cmd.tidal_id \in downloaded.earlier,
                                      !.left = Cardinality(rest)]
    /\ UNCHANGED <<playlists, remoteMode, mirrors, syncArgs, syncQueue, prevSync, ops, daemon,
                   listed, cmds>>

Next ==
    \/ \E max_bitrate \in {NoKbps, Ceiling}, force_update \in BOOLEAN :
          RunSync(max_bitrate, force_update)
    \/ SyncMirrorStep
    \/ RunRecovery
    \/ RecoverTrack

Spec == Init /\ [][Next]_vars

\* ------------------------------------------------- recover, run once more
\* An installation recover is run on again: crate A lists 1.mp3 and 2.mp3, both
\* pending_download with their remote ids; the mp3 of track 1, a flac beside it and
\* the BACKUP-1.mp3 an earlier recovery left (holding the user's older file) may be
\* on disk; and the staging directory may hold files the user or an interrupted run
\* left there: 1.mp3, 1.FLAC, 1.txt, 3.mp3.
InitRecoverAgain ==
    /\ crates = [c \in CratePaths |->
                    IF c = "A.crate" THEN <<TrackPath(1, "mp3"), TrackPath(2, "mp3")>>
                    ELSE <<>>]
    /\ \E S \in SUBSET {FullPath(TrackPath(1, "mp3")), FullPath(TrackPath(1, "flac")),
                         BackupOf(FullPath(TrackPath(1, "mp3")))} :
          /\ disk = [p \in S |-> IF p.bk THEN [tag |-> "older", n |-> p.n, ext |-> p.ext]
                                  ELSE OrigFile(p.n, p.ext)]
          /\ musicDir \in (IF S = {} THEN {"present", "unwritable"} ELSE {"present"})
    /\ staging \in SUBSET {StagedFile(1, "mp3", FALSE), StagedFile(1, "flac", TRUE),
                           StagedFile(1, "txt", FALSE), StagedFile(3, "mp3", FALSE)}
    /\ playlists = (1 :> <<1, 2>>)
    /\ remoteMode = "ok"
    /\ tracks = [k \in {TrackPath(1, "mp3"), TrackPath(2, "mp3")} |->
                   [NewRow(k.n, NoName, Mp3Kbps(k.n), NoName)
                      EXCEPT !.status = "pending_download"]]
    /\ mirrors = <<[crate_path |-> "A.crate", playlist_id |-> 1, is_active |-> TRUE]>>
    /\ pendingAdds = {}
    /\ pc = "idle"
    /\ syncArgs = NoArgs
    /\ syncQueue = <<>>
    /\ todo = {}
    /\ downloaded = [earlier |-> {}, now |-> {}]
    /\ prevSync = NoSync
    /\ last = NoLast
    /\ ops = 0
    /\ listed = NoListing
    /\ cmds = 0
    /\ faults = 0
    /\ daemon = "off"

SpecRecoverAgain == InitRecoverAgain /\ [][RunRecovery \/ RecoverTrack]_vars

\* ------------------------------------------------------------------ daemon
\* cli: daemon. One iteration of its loop is run_sync without ceiling and without
\* force refresh, then run_recovery, then a sleep; an exception leaving either is
\* logged and the loop goes on after the sleep.
DaemonSync ==
    /\ daemon = "sync"
    /\ run_sync(NoKbps, FALSE)
    /\ daemon' = "recover"
    /\ UNCHANGED ops

DaemonRecover ==
    /\ daemon = "recover"
    /\ run_recovery
    /\ daemon' = "sleep"
    /\ UNCHANGED ops

\* A loop whose handler for an exception leaves it: only a pass that raised nothing
\* is followed by the sleep and the next iteration.
DaemonSleepUnlessRaised ==
    /\ daemon = "sleep"
    /\ pc = "idle"
    /\ ~last.aborted
    /\ daemon' = "sync"
    /\ UNCHANGED <<disk, musicDir, staging, crates, playlists, remoteMode, tracks, mirrors,
                   pendingAdds, pc, syncArgs, syncQueue, todo, downloaded, prevSync, last,
                   ops, faults, listed, cmds>>

DaemonSleep ==
    /\ daemon = "sleep"
    /\ pc = "idle"
    /\ daemon' = "sync"
    /\ UNCHANGED <<disk, musicDir, staging, crates, playlists, remoteMode, tracks, mirrors,
                   pendingAdds, pc, syncArgs, syncQueue, todo, downloaded, prevSync, last,
                   ops, faults, listed, cmds>>

\* The daemon started on the same installations, with every remote read, download
\* and move succeeding.
InitDaemon ==
    /\ InitEnv
    /\ faults = MaxFaults
    /\ daemon = "sync"

DaemonNext ==
    \/ DaemonSync
    \/ SyncMirrorStep
    \/ DaemonRecover
    \/ RecoverTrack
    \/ DaemonSleep

\* The loop never stops by itself (while True, with a sleep between iterations), and
\* each run_sync and run_recovery it calls returns: their loops run over finite lists.
SpecDaemon ==
    /\ InitDaemon /\ [][DaemonNext]_vars
    /\ WF_vars(DaemonSync) /\ WF_vars(DaemonRecover) /\ WF_vars(DaemonSleep)
    /\ []<>(pc = "idle")

\* Ctrl+C, between two turns of a loop or during the sleep. Inside run_recovery it
\* is caught there (run_recovery returns, and the daemon goes on to its sleep);
\* anywhere else it reaches the daemon's own handler, which leaves the loop.
DaemonInterrupt ==
    /\ daemon \in {"sync", "recover", "sleep"}
    /\ IF pc = "recover"
       THEN /\ todo' = {}
            /\ UNCHANGED <<daemon, syncQueue, syncArgs>>
       ELSE /\ daemon' = "stopped"
            /\ syncQueue' = <<>>
            /\ syncArgs' = NoArgs
            /\ UNCHANGED todo
    /\ pc' = "idle"
    /\ last' = [NoLast EXCEPT !.op = "interrupt"]
    /\ UNCHANGED <<disk, musicDir, staging, crates, playlists, remoteMode, tracks, mirrors,
                   pendingAdds, downloaded, prevSync, ops, faults, listed, cmds>>

DaemonInterruptibleNext == DaemonNext \/ DaemonInterrupt

\* The daemon with a user who may stop it: the same loop and the same fairness, and
\* none for the interrupt, which need not come.
SpecDaemonInterruptible ==
    /\ InitDaemon /\ [][DaemonInterruptibleNext]_vars
    /\ WF_vars(DaemonSync) /\ WF_vars(DaemonRecover) /\ WF_vars(DaemonSleep)
    /\ []<>(pc = "idle")

\* --------------------------------------------------------------------- cli
\* CrateHandler.list_all_crates: the crate files of the Subcrates directory, in any of
\* the orders the directory scan may yield them.
list_all_crates(cs) ==
    {found \in [1..Cardinality(DOMAIN cs) -> DOMAIN cs] : Range(found) = DOMAIN cs}

\* INSERT OR REPLACE: a crate already registered gets a new, inactive row.
BulkReplaceDiscovered(ms, found) ==
    SelectSeq(ms, LAMBDA m : m.crate_path \notin Range(found))
    \o [i \in 1..Len(found) |-> [crate_path |-> found[i], playlist_id |-> NoPlaylist,
                                 is_active |-> FALSE]]

\* INSERT OR IGNORE INTO mirror_config (crate_path, crate_name, is_active) VALUES (?, ?, 0)
RECURSIVE bulk_add_discovered_crates(_, _)
bulk_add_discovered_crates(ms, found) ==
    IF found = <<>> THEN ms
    ELSE bulk_add_discovered_crates(
            IF MirrorIndex(ms, Head(found)) # 0 THEN ms
            ELSE Append(ms, [crate_path |-> Head(found), playlist_id |-> NoPlaylist,
                             is_active |-> FALSE]),
            Tail(found))

\* The lines list_serato_crates prints: (index, crate) for each mirror it shows.
list_serato_crates(ms, only_active) ==
    {<<i - 1, ms[i].crate_path>> : i \in {j \in 1..Len(ms) : (~only_active) \/ ms[j].is_active}}

\* 0 <= args.index < len(mirrors)
InRange(index, ms) == 0 <= index /\ index < Len(ms)

\* A search pattern of `force`: a part of a file name, or a placeholder TIDAL_IMPORT:<id>.
ForcePatterns ==
    {[imp |-> FALSE, n |-> n] : n \in Stems} \cup {[imp |-> TRUE, n |-> i] : i \in Ids}

\* local_path LIKE '%pattern%'
Like(local_path, pattern) ==
    local_path.n = pattern.n /\ local_path.imp = pattern.imp /\ ~local_path.stg

\* A store that marks rows as deleted and keeps them.
MarkRowsDeleted(t, paths) ==
    [k \in DOMAIN t |-> IF k \in paths THEN [t[k] EXCEPT !.status = "deleted"] ELSE t[k]]

\* DELETE FROM track_mapping WHERE local_path IN (...)
DeleteRows(t, paths) == [k \in DOMAIN t \ paths |-> t[k]]

\* DatabaseManager.clear_all_track_mappings
clear_all_track_mappings == [tracks |-> <<>>, pendingAdds |-> {}]

\* A command typed at the prompt while no sync or recovery is running.
Typed ==
    /\ daemon = "off"
    /\ pc = "idle"
    /\ cmds < MaxCmds
    /\ cmds' = cmds + 1
    /\ prevSync' = NoSync
    /\ UNCHANGED <<musicDir, staging, pc, syncArgs, syncQueue, todo, downloaded,
                   ops, faults, daemon>>

\* cli: list [--active]
RunList(only_active) ==
    /\ Typed
    /\ listed' = [valid |-> TRUE, only_active |-> only_active,
                  shown |-> list_serato_crates(get_mirrors(mirrors, FALSE), only_active),
                  rows |-> get_mirrors(mirrors, FALSE)]
    /\ last' = [NoLast EXCEPT !.op = "list"]
    /\ UNCHANGED <<remoteMode, disk, crates, playlists, tracks, mirrors, pendingAdds>>

\* cli: discover
RunDiscover ==
    /\ Typed
    /\ \E found \in list_all_crates(crates) :
          mirrors' = bulk_add_discovered_crates(mirrors, found)
    /\ listed' = KeepListing(mirrors')
    /\ last' = [NoLast EXCEPT !.op = "discover", !.acted = mirrors' # mirrors]
    /\ UNCHANGED <<remoteMode, disk, crates, playlists, tracks, pendingAdds>>

\* cli: add <index>
RunAdd(index) ==
    /\ Typed
    /\ LET ms == get_mirrors(mirrors, FALSE)
       IN  IF InRange(index, ms)
           THEN /\ mirrors' = add_mirror(mirrors, ms[index + 1].crate_path,
                                         ms[index + 1].playlist_id, TRUE)
                /\ last' = [NoLast EXCEPT !.op = "add", !.index = index, !.acted = TRUE,
                                          !.crate_path = ms[index + 1].crate_path]
           ELSE /\ mirrors' = mirrors
                /\ last' = [NoLast EXCEPT !.op = "add", !.index = index]
    /\ listed' = KeepListing(mirrors')
    /\ UNCHANGED <<remoteMode, disk, crates, playlists, tracks, pendingAdds>>

\* cli: rm <index>
RunRm(index) ==
    /\ Typed
    /\ LET ms == get_mirrors(mirrors, FALSE)
       IN  IF InRange(index, ms)
           THEN /\ mirrors' = add_mirror(mirrors, ms[index + 1].crate_path, NoPlaylist, FALSE)
                /\ last' = [NoLast EXCEPT !.op = "rm", !.index = index, !.acted = TRUE,
                                          !.crate_path = ms[index + 1].crate_path,
                                          !.playlist_id = ms[index + 1].playlist_id]
           ELSE /\ mirrors' = mirrors
                /\ last' = [NoLast EXCEPT !.op = "rm", !.index = index]
    /\ listed' = KeepListing(mirrors')
    /\ UNCHANGED <<remoteMode, disk, crates, playlists, tracks, pendingAdds>>

\* cli: reset <index>. An inactive mirror is left alone; a crate file that cannot be
\* read ends the command with an error.
RunReset(index) ==
    /\ Typed
    /\ LET ms == get_mirrors(mirrors, FALSE)
       IN  IF InRange(index, ms)
           THEN LET crate_path_str == ms[index + 1].crate_path
                    readable == ms[index + 1].is_active /\ crate_path_str \in DOMAIN crates
                IN  /\ tracks' = IF readable
                                 THEN DeleteRows(tracks, Range(crates[crate_path_str]))
                                 ELSE tracks
                    /\ last' = [NoLast EXCEPT !.op = "reset", !.index = index,
                                              !.acted = readable,
                                              !.crate_path = crate_path_str]
           ELSE /\ tracks' = tracks
                /\ last' = [NoLast EXCEPT !.op = "reset", !.index = index]
    /\ UNCHANGED <<remoteMode, disk, crates, playlists, mirrors, pendingAdds, listed>>

\* cli: match <index> <query>, and the track the user picks among the results
\* (NoId: no result, or the user cancels).
RunMatch(index, choice) ==
    /\ Typed
    /\ LET ms == get_mirrors(mirrors, FALSE)
       IN  IF InRange(index, ms)
           THEN LET playlist_id == ms[index + 1].playlist_id
                    adding == playlist_id # NoPlaylist /\ authenticate /\ choice # NoId
                IN  /\ playlists' = IF adding
                                    THEN add_tracks_to_playlist(playlists, playlist_id,
                                                                <<choice>>).pls
                                    ELSE playlists
                    /\ last' = [NoLast EXCEPT !.op = "match", !.index = index,
                                              !.acted = adding,
                                              !.playlist_id = playlist_id,
                                              !.crate_path = ms[index + 1].crate_path]
           ELSE /\ playlists' = playlists
                /\ last' = [NoLast EXCEPT !.op = "match", !.index = index]
    /\ UNCHANGED <<remoteMode, disk, crates, tracks, mirrors, pendingAdds, listed>>

\* cli: force <path>
RunForce(pattern) ==
    /\ Typed
    /\ LET matches == {k \in DOMAIN tracks : Like(k, pattern)}
       IN  IF Cardinality(matches) = 1
           THEN \E target_path \in matches :
                  /\ tracks' = update_track_status(tracks, target_path, "pending_download", NoPath)
                  /\ last' = [NoLast EXCEPT !.op = "force", !.acted = TRUE,
                                            !.path = target_path]
           ELSE /\ tracks' = tracks
                /\ last' = [NoLast EXCEPT !.op = "force"]
    /\ UNCHANGED <<remoteMode, disk, crates, playlists, mirrors, pendingAdds, listed>>

\* cli: cleanup
RunCleanup ==
    /\ Typed
    /\ LET rows == {k \in DOMAIN tracks : tracks[k].status = "pending_cleanup"}
           backups == {tracks[k].downloaded_path : k \in rows} \ {NoPath}
       IN  /\ disk' = [p \in DOMAIN disk \ backups |-> disk[p]]
           /\ tracks' = DeleteRows(tracks, rows)
           /\ last' = [NoLast EXCEPT !.op = "cleanup", !.acted = rows # {},
                                     !.left = Cardinality(rows)]
    /\ UNCHANGED <<remoteMode, crates, playlists, mirrors, pendingAdds, listed>>

\* cli: clear-tracks, and the answer to its question
RunClearTracks(confirm) ==
    /\ Typed
    /\ tracks' = IF confirm THEN DeleteRows(tracks, DOMAIN tracks) ELSE tracks
    /\ last' = [NoLast EXCEPT !.op = "clear-tracks", !.acted = confirm]
    /\ UNCHANGED <<remoteMode, disk, crates, playlists, mirrors, pendingAdds, listed>>

\* cli: clear-track-mapping, and the answer to its question
RunClearTrackMapping(confirm) ==
    /\ Typed
    /\ tracks' = IF confirm THEN clear_all_track_mappings.tracks ELSE tracks
    /\ pendingAdds' = IF confirm THEN clear_all_track_mappings.pendingAdds ELSE pendingAdds
    /\ last' = [NoLast EXCEPT !.op = "clear-track-mapping", !.acted = confirm]
    /\ UNCHANGED <<remoteMode, disk, crates, playlists, mirrors, listed>>

\* ------------------------------------------------------------ outside events
\* The user deletes a crate in Serato: its file is gone from the Subcrates directory.
CrateDeleted(crate_path) ==
    /\ Typed
    /\ crate_path \in DOMAIN crates
    /\ crates' = [c \in DOMAIN crates \ {crate_path} |-> crates[c]]
    /\ last' = [NoLast EXCEPT !.op = "crate_deleted", !.crate_path = crate_path]
    /\ UNCHANGED <<remoteMode, disk, playlists, tracks, mirrors, pendingAdds, listed>>

\* The user deletes a playlist in the remote service.
PlaylistDeleted(playlist_id) ==
    /\ Typed
    /\ playlist_id \in DOMAIN playlists
    /\ playlists' = [q \in DOMAIN playlists \ {playlist_id} |-> playlists[q]]
    /\ last' = [NoLast EXCEPT !.op = "playlist_deleted", !.playlist_id = playlist_id]
    /\ UNCHANGED <<remoteMode, disk, crates, tracks, mirrors, pendingAdds, listed>>

\* The saved login expires and the device login is not completed.
LoginExpired ==
    /\ Typed
    /\ remoteMode = "ok"
    /\ remoteMode' = "auth_fails"
    /\ last' = [NoLast EXCEPT !.op = "login_expired"]
    /\ UNCHANGED <<disk, crates, playlists, tracks, mirrors, pendingAdds, listed>>

\* An installation in use: both crates were discovered, crate A was added and synced
\* to playlist 1 before the mappings were cleared, and crate B is not added, added or
\* not discovered yet.
\* Crate B lists track 1 with the leading separator sync_mirror strips
\* ("Serato uses leading / often").
InitCli ==
    /\ crates = [c \in CratePaths |->
                    IF c = "A.crate" THEN <<TrackPath(1, "mp3"), TrackPath(2, "mp3")>>
                    ELSE <<FullPath(TrackPath(1, "mp3"))>>]
    /\ \E mp3s \in SUBSET {1, 2} :
          disk = [p \in {FullPath(TrackPath(n, "mp3")) : n \in mp3s} |-> OrigFile(p.n, p.ext)]
    /\ musicDir = "present"
    /\ staging = {}
    /\ \E pl \in SeqsUpTo(Ids, 1) : playlists = (1 :> pl)
    /\ remoteMode = "ok"
    /\ tracks = <<>>
    /\ \E b \in {<<>>} \cup {<<[crate_path |-> "B.crate", playlist_id |-> NoPlaylist,
                                 is_active |-> a]>> : a \in BOOLEAN} :
          mirrors = <<[crate_path |-> "A.crate", playlist_id |-> 1, is_active |-> TRUE]>> \o b
    /\ pendingAdds = {}
    /\ pc = "idle"
    /\ syncArgs = NoArgs
    /\ syncQueue = <<>>
    /\ todo = {}
    /\ downloaded = [earlier |-> {}, now |-> {}]
    /\ prevSync = NoSync
    /\ last = NoLast
    /\ ops = 0
    /\ listed = NoListing
    /\ cmds = 0
    /\ faults = 0
    /\ daemon = "off"

CliNext ==
    \/ \E only_active \in BOOLEAN : RunList(only_active)
    \/ RunDiscover
    \/ \E index \in 0..MaxIndex : RunAdd(index)
    \/ \E index \in 0..MaxIndex : RunRm(index)
    \/ \E index \in 0..MaxIndex : RunReset(index)
    \/ \E index \in 0..MaxIndex, choice \in Ids \cup {NoId} : RunMatch(index, choice)
    \/ \E pattern \in ForcePatterns : RunForce(pattern)
    \/ RunCleanup
    \/ \E confirm \in BOOLEAN : RunClearTracks(confirm)
    \/ \E confirm \in BOOLEAN : RunClearTrackMapping(confirm)
    \/ \E crate_path \in CratePaths : CrateDeleted(crate_path)
    \/ \E playlist_id \in 1..MaxId : PlaylistDeleted(playlist_id)
    \/ LoginExpired
    \/ \E max_bitrate \in {NoKbps, Ceiling}, force_update \in BOOLEAN :
          RunSync(max_bitrate, force_update)
    \/ SyncMirrorStep
    \/ RunRecovery
    \/ RecoverTrack

SpecCli == InitCli /\ [][CliNext]_vars

\* ------------------------------------------------------- the store, on its own
\* The arguments the engine and the commands pass to the mapping store.
StorePaths == {TrackPath(1, "mp3"), PlaceholderPath(1)}
StoreIds == {NoId} \cup Ids
StoreIsrcs == {NoName, 1}
StoreBitrates == {NoKbps, 320}
StoreNames == {NoName, 1}
StoreDownloadedPaths == {NoPath, FullPath(TrackPath(1, "flac"))}

\* A call of DatabaseManager.upsert_track
UpsertTrack(local_path, tidal_id, isrc, bitrate, display_name) ==
    /\ ops < MaxStoreOps
    /\ ops' = ops + 1
    /\ tracks' = upsert_track(tracks, local_path, tidal_id, isrc, bitrate, display_name)
    /\ last' = [NoLast EXCEPT !.op = "upsert_track", !.path = local_path,
                              !.tidal_id = tidal_id, !.isrc = isrc, !.bitrate = bitrate,
                              !.display_name = display_name]
    /\ UNCHANGED <<disk, musicDir, staging, crates, playlists, remoteMode, mirrors,
                   pendingAdds, pc, syncArgs, syncQueue, todo, downloaded, prevSync,
                   faults, daemon, listed, cmds>>

\* A call of DatabaseManager.update_track_status
UpdateTrackStatus(local_path, status, downloaded_path) ==
    /\ ops < MaxStoreOps
    /\ ops' = ops + 1
    /\ tracks' = update_track_status(tracks, local_path, status, downloaded_path)
    /\ last' = [NoLast EXCEPT !.op = "update_track_status", !.path = local_path,
                              !.status = status, !.downloaded_path = downloaded_path]
    /\ UNCHANGED <<disk, musicDir, staging, crates, playlists, remoteMode, mirrors,
                   pendingAdds, pc, syncArgs, syncQueue, todo, downloaded, prevSync,
                   faults, daemon, listed, cmds>>

\* A new database: _init_db has created the empty tables.
InitStore ==
    /\ disk = <<>>
    /\ musicDir = "present"
    /\ staging = {}
    /\ crates = <<>>
    /\ playlists = <<>>
    /\ remoteMode = "ok"
    /\ tracks = <<>>
    /\ mirrors = <<>>
    /\ pendingAdds = {}
    /\ pc = "idle"
    /\ syncArgs = NoArgs
    /\ syncQueue = <<>>
    /\ todo = {}
    /\ downloaded = [earlier |-> {}, now |-> {}]
    /\ prevSync = NoSync
    /\ last = NoLast
    /\ ops = 0
    /\ listed = NoListing
    /\ cmds = 0
    /\ faults = 0
    /\ daemon = "off"

StoreNext ==
    \/ \E local_path \in StorePaths, tidal_id \in StoreIds, isrc \in StoreIsrcs,
          bitrate \in StoreBitrates, display_name \in StoreNames :
          UpsertTrack(local_path, tidal_id, isrc, bitrate, display_name)
    \/ \E local_path \in StorePaths, status \in Statuses,
          downloaded_path \in StoreDownloadedPaths :
          UpdateTrackStatus(local_path, status, downloaded_path)

SpecStore == InitStore /\ [][StoreNext]_vars

\* ------------------------------------------- the crate file, byte by byte
\* A crate file is a sequence of bytes (0..255); a string is a sequence of code
\* points. Python's content[a:b] on a 0-based sequence: clipped, never an error.
Slice(s, a, b) == SubSeq(s, a + 1, IF b < Len(s) THEN b ELSE Len(s))

\* The characters the codec names.
NUL == 0
SLASH == 47
OTRK == <<111, 116, 114, 107>>     \* 'otrk'
PTRK == <<112, 116, 114, 107>>     \* 'ptrk'

\* bytes.decode('ascii', errors='ignore'): bytes above 127 are dropped.
decode_ascii(b) == SelectSeq(b, LAMBDA x : x < 128)

\* An unpack that reads the length little-endian ('<I').
UnpackLittleEndian(b) == ((b[4] * 256 + b[3]) * 256 + b[2]) * 256 + b[1]

\* struct.unpack('>I', b)[0]; it raises struct.error unless b holds four bytes.
CanUnpack(b) == Len(b) = 4
unpack_I(b) == ((b[1] * 256 + b[2]) * 256 + b[3]) * 256 + b[4]

\* A pack that writes the length little-endian ('<I').
PackLittleEndian(n) ==
    <<n % 256, (n \div 256) % 256, (n \div 65536) % 256, (n \div 16777216) % 256>>

\* struct.pack('>I', n)
pack_I(n) == <<(n \div 16777216) % 256, (n \div 65536) % 256, (n \div 256) % 256, n % 256>>

\* bytes.decode('utf-16-be') raises UnicodeDecodeError on an odd number of bytes.
CanDecodeUtf16(b) == Len(b) % 2 = 0
decode_utf16_be(b) == [i \in 1..(Len(b) \div 2) |-> b[2 * i - 1] * 256 + b[2 * i]]

\* str.encode('utf-16-be'), for code points below 65536
encode_utf16_be(s) ==
    [i \in 1..(2 * Len(s)) |-> IF i % 2 = 1 THEN s[(i + 1) \div 2] \div 256
                               ELSE s[i \div 2] % 256]

\* str.strip(ch): leading and trailing occurrences of ch are removed.
strip(s, ch) ==
    LET keep == {i \in 1..Len(s) : s[i] # ch}
    IN  IF keep = {} THEN <<>>
        ELSE SubSeq(s, CHOOSE i \in keep : \A j \in keep : i <= j,
                       CHOOSE i \in keep : \A j \in keep : j <= i)

\* str.lstrip(ch): leading occurrences of ch are removed.
lstrip(s, ch) ==
    LET keep == {i \in 1..Len(s) : s[i] # ch}
    IN  IF keep = {} THEN <<>>
        ELSE SubSeq(s, CHOOSE i \in keep : \A j \in keep : i <= j, Len(s))

\* The inner loop of get_tracks over the value of an 'otrk' block, from sub_pos on:
\* the path of the first 'ptrk' child (the loop breaks there), or an exception.
RECURSIVE ScanChildren(_, _)
ScanChildren(value, sub_pos) ==
    IF sub_pos >= Len(value) THEN [raised |-> FALSE, tracks |-> <<>>]
    ELSE IF ~CanUnpack(Slice(value, sub_pos + 4, sub_pos + 8))
    THEN [raised |-> TRUE, tracks |-> <<>>]
    ELSE LET sub_tag == decode_ascii(Slice(value, sub_pos, sub_pos + 4))
             sub_len == unpack_I(Slice(value, sub_pos + 4, sub_pos + 8))
             sub_val == Slice(value, sub_pos + 8, sub_pos + 8 + sub_len)
         IN  IF sub_tag = PTRK
             THEN IF CanDecodeUtf16(sub_val)
                  THEN [raised |-> FALSE, tracks |-> <<strip(decode_utf16_be(sub_val), NUL)>>]
                  ELSE [raised |-> TRUE, tracks |-> <<>>]
             ELSE ScanChildren(value, sub_pos + 8 + sub_len)

\* The outer loop of get_tracks from pos on, with the tracks appended so far (parsed); an
\* exception ends the loop and is swallowed by the except clause.
RECURSIVE ScanBlocks(_, _, _)
ScanBlocks(content, pos, parsed) ==
    IF pos >= Len(content) THEN [raised |-> FALSE, tracks |-> parsed]
    ELSE IF ~CanUnpack(Slice(content, pos + 4, pos + 8))
    THEN [raised |-> TRUE, tracks |-> parsed]
    ELSE LET tag == decode_ascii(Slice(content, pos, pos + 4))
             length == unpack_I(Slice(content, pos + 4, pos + 8))
             value == Slice(content, pos + 8, pos + 8 + length)
             sub == IF tag = OTRK THEN ScanChildren(value, 0)
                    ELSE [raised |-> FALSE, tracks |-> <<>>]
         IN  IF sub.raised THEN [raised |-> TRUE, tracks |-> parsed]
             ELSE ScanBlocks(content, pos + 8 + length, parsed \o sub.tracks)

\* CrateHandler.get_tracks on the bytes of an existing crate file: the list it
\* returns (swallowed says whether the except clause ran).
get_tracks(content) ==
    LET r == ScanBlocks(content, 0, <<>>)
    IN  [tracks |-> r.tracks, swallowed |-> r.raised]

\* The inner loop of replace_track_path: the rebuilt value of an 'otrk' block.
RECURSIVE RewriteChildren(_, _, _, _, _, _)
RewriteChildren(value, sub_pos, old_path, new_path, new_otrk_value, otrk_modified) ==
    IF sub_pos >= Len(value)
    THEN [raised |-> FALSE, value |-> new_otrk_value, modified |-> otrk_modified]
    ELSE IF ~CanUnpack(Slice(value, sub_pos + 4, sub_pos + 8))
    THEN [raised |-> TRUE, value |-> new_otrk_value, modified |-> otrk_modified]
    ELSE LET sub_tag == Slice(value, sub_pos, sub_pos + 4)
             sub_len == unpack_I(Slice(value, sub_pos + 4, sub_pos + 8))
             sub_val == Slice(value, sub_pos + 8, sub_pos + 8 + sub_len)
             copied == new_otrk_value \o Slice(value, sub_pos, sub_pos + 8 + sub_len)
         IN  IF decode_ascii(sub_tag) = PTRK
             THEN IF ~CanDecodeUtf16(sub_val)
                  THEN [raised |-> TRUE, value |-> new_otrk_value, modified |-> otrk_modified]
                  ELSE LET path == strip(decode_utf16_be(sub_val), NUL)
                           norm_path == lstrip(path, SLASH)
                           norm_old_path == lstrip(old_path, SLASH)
                           new_val == encode_utf16_be(lstrip(new_path, SLASH))
                       IN  IF norm_path = norm_old_path
                           THEN RewriteChildren(value, sub_pos + 8 + sub_len, old_path, new_path,
                                    new_otrk_value \o sub_tag \o pack_I(Len(new_val)) \o new_val,
                                    TRUE)
                           ELSE RewriteChildren(value, sub_pos + 8 + sub_len, old_path, new_path,
                                    copied, otrk_modified)
             ELSE RewriteChildren(value, sub_pos + 8 + sub_len, old_path, new_path,
                                  copied, otrk_modified)

\* The outer loop of replace_track_path.
RECURSIVE RewriteBlocks(_, _, _, _, _, _)
RewriteBlocks(content, pos, old_path, new_path, new_content, modified) ==
    IF pos >= Len(content)
    THEN [raised |-> FALSE, content |-> new_content, modified |-> modified]
    ELSE IF ~CanUnpack(Slice(content, pos + 4, pos + 8))
    THEN [raised |-> TRUE, content |-> new_content, modified |-> modified]
    ELSE LET tag == Slice(content, pos, pos + 4)
             length == unpack_I(Slice(content, pos + 4, pos + 8))
             value == Slice(content, pos + 8, pos + 8 + length)
             copied == new_content \o Slice(content, pos, pos + 8 + length)
         IN  IF decode_ascii(tag) = OTRK
             THEN LET sub == RewriteChildren(value, 0, old_path, new_path, <<>>, FALSE)
                  IN  IF sub.raised
                      THEN [raised |-> TRUE, content |-> new_content, modified |-> modified]
                      ELSE IF sub.modified
                      THEN RewriteBlocks(content, pos + 8 + length, old_path, new_path,
                               new_content \o tag \o pack_I(Len(sub.value)) \o sub.value, TRUE)
                      ELSE RewriteBlocks(content, pos + 8 + length, old_path, new_path,
                               copied, modified)
             ELSE RewriteBlocks(content, pos + 8 + length, old_path, new_path,
                                copied, modified)

\* A replace_track_path that reports success whenever nothing was raised.
ReplaceReportsAlways(content, old_path, new_path) ==
    LET r == RewriteBlocks(content, 0, old_path, new_path, <<>>, FALSE)
    IN  IF ~r.raised
        THEN [returned |-> TRUE, content |-> r.content]
        ELSE [returned |-> FALSE, content |-> content]

\* CrateHandler.replace_track_path on the bytes of an existing crate file: what it
\* returns and the bytes the file holds afterwards. The file is written after the
\* loop, when something was replaced and nothing was raised.
ReplaceTrackPath(content, old_path, new_path) ==
    LET r == RewriteBlocks(content, 0, old_path, new_path, <<>>, FALSE)
    IN  IF ~r.raised /\ r.modified
        THEN [returned |-> TRUE, content |-> r.content]
        ELSE [returned |-> FALSE, content |-> content]

\* handler.add_track_to_crate(path), as run_recovery and _create_orphan_crate call it
\* on a CrateHandler. The class defines get_tracks, replace_track_path,
\* list_all_crates and update_track_path_globally and nothing else: the attribute
\* lookup raises before any byte is read or written.
add_track_to_crate(content, path) ==
    [raised |-> "AttributeError", returned |-> FALSE, content |-> content]

\* ------------------------------------------------- the codec, on its own
\* The crate files Serato leaves on disk: top-level blocks of a tag, a big-endian
\* length and a value; an 'otrk' block holds child blocks of the same shape, at most
\* one of them a 'ptrk' with the path in UTF-16BE, with or without NUL padding.
Block(tag, value) == tag \o <<0, 0, Len(value) \div 256, Len(value) % 256>> \o value

\* "a", "b", "/a", and "a" followed by one NUL
StoredPaths ==
    {[text |-> <<97>>, pad |-> <<>>], [text |-> <<98>>, pad |-> <<>>],
     [text |-> <<SLASH, 97>>, pad |-> <<>>], [text |-> <<97>>, pad |-> <<NUL>>]}

PtrkChild(p) == Block(PTRK, encode_utf16_be(p.text \o p.pad))

\* Each top-level block with the track entries it stands for: track entries with the
\* path alone, before or after a child of another tag, or without a path; a child of
\* another tag whose value reads like a 'ptrk' block; and blocks of other tags, one
\* of them with a value that reads like a track entry.
TopBlocks ==
    LET VRSN == <<118, 114, 115, 110>>
        OSRT == <<111, 115, 114, 116>>
        TTYP == <<116, 116, 121, 112>>
        PathA == [text |-> <<97>>, pad |-> <<>>]
        OtherChild == Block(TTYP, <<0, 109>>)
        DecoyChild == Block(TTYP, Block(PTRK, encode_utf16_be(<<98>>)))
    IN  {[bytes |-> Block(OTRK, PtrkChild(p)), tracks |-> <<p.text>>, stored |-> <<p.text \o p.pad>>] :
            p \in StoredPaths}
        \cup
        {[bytes |-> Block(OTRK, OtherChild \o PtrkChild(PathA)), tracks |-> <<PathA.text>>,
          stored |-> <<PathA.text>>],
         [bytes |-> Block(OTRK, PtrkChild(PathA) \o OtherChild), tracks |-> <<PathA.text>>,
          stored |-> <<PathA.text>>],
         [bytes |-> Block(OTRK, DecoyChild \o PtrkChild(PathA)), tracks |-> <<PathA.text>>,
          stored |-> <<PathA.text>>],
         [bytes |-> Block(OTRK, OtherChild), tracks |-> <<>>, stored |-> <<>>],
         [bytes |-> Block(OTRK, DecoyChild), tracks |-> <<>>, stored |-> <<>>],
         [bytes |-> Block(VRSN, <<0, 49>>), tracks |-> <<>>, stored |-> <<>>],
         [bytes |-> Block(OSRT, Block(OTRK, PtrkChild(PathA))), tracks |-> <<>>, stored |-> <<>>]}

RECURSIVE BytesOf(_)
BytesOf(bs) == IF bs = <<>> THEN <<>> ELSE Head(bs).bytes \o BytesOf(Tail(bs))

RECURSIVE TracksOf(_)
TracksOf(bs) == IF bs = <<>> THEN <<>> ELSE Head(bs).tracks \o TracksOf(Tail(bs))

RECURSIVE StoredOf(_)
StoredOf(bs) == IF bs = <<>> THEN <<>> ELSE Head(bs).stored \o StoredOf(Tail(bs))

\* Every crate file of at most MaxBlocks blocks, with the entries it holds (tracks)
\* and the strings their 'ptrk' values encode (stored).
ValidCrates ==
    {[bytes |-> BytesOf(bs), tracks |-> TracksOf(bs), stored |-> StoredOf(bs),
      blocks |-> bs] :
        bs \in SeqsUpTo(TopBlocks, MaxBlocks)}

\* The arguments of replace_track_path and add_track_to_crate: "a", "/a", "b", "c"
\* for the old path and "b", "/bb" for the new one.
CodecOldPaths == {<<97>>, <<SLASH, 97>>, <<98>>, <<99>>}
CodecNewPaths == {<<98>>, <<SLASH, 98, 98>>}

CodecFile == "A.crate"

CodecFrame ==
    UNCHANGED <<disk, musicDir, staging, playlists, remoteMode, tracks, mirrors,
                pendingAdds, pc, syncArgs, syncQueue, todo, downloaded, prevSync,
                faults, daemon, listed, cmds>>

\* CrateHandler(path).get_tracks()
CodecGetTracks ==
    /\ ops < MaxCodecOps
    /\ ops' = ops + 1
    /\ IF CodecFile \in DOMAIN crates
       THEN \E r \in {get_tracks(crates[CodecFile])} :
               last' = [NoLast EXCEPT !.op = "get_tracks", !.content = crates[CodecFile],
                                      !.entries = r.tracks, !.swallowed = r.swallowed]
       ELSE last' = [NoLast EXCEPT !.op = "get_tracks", !.raised = "FileNotFoundError"]
    /\ UNCHANGED crates
    /\ CodecFrame

\* CrateHandler(path).replace_track_path(old_path, new_path)
CodecReplaceTrackPath(old_path, new_path) ==
    /\ ops < MaxCodecOps
    /\ ops' = ops + 1
    /\ IF CodecFile \in DOMAIN crates
       THEN \E r \in {ReplaceTrackPath(crates[CodecFile], old_path, new_path)} :
               /\ crates' = [crates EXCEPT ![CodecFile] = r.content]
               /\ last' = [NoLast EXCEPT !.op = "replace_track_path",
                                         !.content = crates[CodecFile],
                                         !.old_path = old_path, !.new_path = new_path,
                                         !.returned = r.returned]
       ELSE /\ crates' = crates
            /\ last' = [NoLast EXCEPT !.op = "replace_track_path",
                                      !.old_path = old_path, !.new_path = new_path]
    /\ CodecFrame

\* CrateHandler(path).add_track_to_crate(new_path)
CodecAddTrackToCrate(new_path) ==
    /\ ops < MaxCodecOps
    /\ ops' = ops + 1
    /\ CodecFile \in DOMAIN crates
    /\ \E r \in {add_track_to_crate(crates[CodecFile], new_path)} :
          /\ crates' = [crates EXCEPT ![CodecFile] = r.content]
          /\ last' = [NoLast EXCEPT !.op = "add_track_to_crate",
                                    !.content = crates[CodecFile], !.new_path = new_path,
                                    !.returned = r.returned, !.raised = r.raised]
    /\ CodecFrame

\* A crate file as Serato wrote it, whole or cut short at any byte (a copy that
\* was interrupted), or no file at all.
InitCodec ==
    /\ \/ crates = <<>>
       \/ \E v \in ValidCrates : \E cut \in 0..Len(v.bytes) :
             crates = (CodecFile :> Slice(v.bytes, 0, cut))
    /\ disk = <<>>
    /\ musicDir = "present"
    /\ staging = {}
    /\ playlists = <<>>
    /\ remoteMode = "ok"
    /\ tracks = <<>>
    /\ mirrors = <<>>
    /\ pendingAdds = {}
    /\ pc = "idle"
    /\ syncArgs = NoArgs
    /\ syncQueue = <<>>
    /\ todo = {}
    /\ downloaded = [earlier |-> {}, now |-> {}]
    /\ prevSync = NoSync
    /\ last = NoLast
    /\ ops = 0
    /\ listed = NoListing
    /\ cmds = 0
    /\ faults = 0
    /\ daemon = "off"

CodecNext ==
    \/ CodecGetTracks
    \/ \E old_path \in CodecOldPaths, new_path \in CodecNewPaths :
          CodecReplaceTrackPath(old_path, new_path)
    \/ \E new_path \in CodecNewPaths : CodecAddTrackToCrate(new_path)

SpecCodec == InitCodec /\ [][CodecNext]_vars

\* --------------------------------------------------- the metadata transplant
\* Bytes and text are sequences of atoms (a word, a number in digits, "NUL"); text of
\* these atoms is ASCII, so str.encode('utf-8') and bytes.decode('utf-8') keep the
\* atoms as they are. A tagged file is [kind, tagged, tags]: kind is the class
\* mutagen.File returns ("mp3" for an ID3 file, "flac", "mp4", "none" for None),
\* tagged says that audio.tags is not None, and tags maps each native key to its
\* frame [id, desc, val] (ID3) or [val] (Vorbis comment, MP4 atom).
Frame(id, desc, val) == [id |-> id, desc |-> desc, val |-> val]
Field(val) == [val |-> val]

\* str.replace('\x00', '')
replace_nul(t) == SelectSeq(t, LAMBDA x : x # "NUL")

\* base64.b64encode(data).decode('ascii'), and base64.b64decode, which raises
\* binascii.Error on a text that is no base64 (here: any text b64encode did not make).
b64encode(data) == <<"b64[">> \o data \o <<"]">>
CanB64Decode(t) == Len(t) >= 2 /\ t[1] = "b64[" /\ t[Len(t)] = "]"
b64decode(t) == SubSeq(t, 2, Len(t) - 1)

\* int(text) raises ValueError unless the text is a number.
IsNumber(t) == Len(t) = 1 /\ t[1] \in {"18", "200"}

\* b'application/octet-stream\x00\x00' + clean_desc.encode('utf-8') + b'\x00'
wrapper(clean_desc) == <<"application/octet-stream", "NUL", "NUL", clean_desc, "NUL">>

\* frame.desc.startswith("Serato"), on the descriptions of the files below
StartsWithSerato(desc) ==
    desc \in {"Serato Markers_", "Serato Markers2", "Serato Markers V2", "Serato Autotags"}

\* The function of a set of <<key, value>> pairs with distinct keys (a dict).
Dict(pairs) == [k \in {p[1] : p \in pairs} |-> (CHOOSE p \in pairs : p[1] = k)[2]]

\* extract_serato_markers, branch 1: ID3 frames
ExtractId3(tags) ==
    Dict({<<tags[k].desc, wrapper(tags[k].desc) \o tags[k].val>> :
             k \in {x \in DOMAIN tags : tags[x].id = "GEOB" /\ StartsWithSerato(tags[x].desc)}}
         \cup {<<"KEY", replace_nul(tags[k].val)>> : k \in {x \in DOMAIN tags : tags[x].id = "TKEY"}}
         \cup {<<"BPM", replace_nul(tags[k].val)>> : k \in {x \in DOMAIN tags : tags[x].id = "TBPM"}}
         \cup {<<"COMPOSER", replace_nul(tags[k].val)>> : k \in {x \in DOMAIN tags : tags[x].id = "TCOM"}}
         \cup {<<"GROUPING", replace_nul(tags[k].val)>> : k \in {x \in DOMAIN tags : tags[x].id = "TIT1"}}
         \cup {<<"LABEL", replace_nul(tags[k].val)>> : k \in {x \in DOMAIN tags : tags[x].id = "TPUB"}}
         \cup {<<"COMMENT", replace_nul(tags[k].val)>> : k \in {x \in DOMAIN tags : tags[x].id = "COMM"}}
         \cup {<<"POPM_serato.com", tags[k].val>> :
                  k \in {x \in DOMAIN tags : tags[x].id = "POPM" /\ tags[x].desc = "serato.com"}}
         \cup {<<"SERATO_PLAYCOUNT", replace_nul(tags[k].val)>> :
                  k \in {x \in DOMAIN tags : tags[x].id = "TXXX" /\ tags[x].desc = "SERATO_PLAYCOUNT"}}
         \cup {<<"SERATO_RELVOL", replace_nul(tags[k].val)>> :
                  k \in {x \in DOMAIN tags : tags[x].id = "TXXX" /\ tags[x].desc = "SERATO_RELVOL"}})

\* extract_serato_markers, branch 2: Vorbis comments. mutagen hands the keys in lower
\* case; a key that starts with "serato" is base64-decoded (a failure is logged and
\* the key skipped), the descriptive keys are renamed to their upper-case name.
VorbisNormal(key) ==
    CASE key = "key" -> "KEY" [] key = "bpm" -> "BPM" [] key = "composer" -> "COMPOSER"
      [] key = "grouping" -> "GROUPING" [] key = "comment" -> "COMMENT"
      [] key = "genre" -> "GENRE" [] key = "label" -> "LABEL" [] key = "publisher" -> "LABEL"
      [] key = "rating" -> "RATING" [] OTHER -> ""

VorbisIsSerato(key) ==
    key \in {"serato_markers_v2", "serato_markers2", "serato_markers_", "serato_autotags",
             "serato_playcount", "serato_relvol"}

ExtractVorbis(tags) ==
    Dict({<<k, b64decode(tags[k].val)>> :
             k \in {x \in DOMAIN tags : VorbisIsSerato(x) /\ CanB64Decode(tags[x].val)}}
         \cup {<<VorbisNormal(k), tags[k].val>> :
                  k \in {x \in DOMAIN tags : ~VorbisIsSerato(x) /\ VorbisNormal(x) # ""}})

\* extract_serato_markers, branch 3: MP4 atoms. A marker atom of com.serato.dj holds
\* base64 text and is decoded with its wrapper left in; relvol is taken as it is;
\* playcount is decoded and cut at its first NUL.
Mp4Mapped(key) ==
    CASE key = "----:com.serato.dj:markers" -> "Serato Markers_"
      [] key = "----:com.serato.dj:markersv2" -> "Serato Markers2"
      [] key = "----:com.serato.dj:autgain" -> "Serato Autotags"
      [] key = "----:com.serato.dj:playcount" -> "SERATO_PLAYCOUNT"
      [] key = "----:com.serato.dj:relvol" -> "SERATO_RELVOL"
      [] OTHER -> ""

ExtractMp4(tags) ==
    LET split_nul_first(raw) ==     \* raw.split(b'\x00')[0]
            LET nul == {i \in 1..Len(raw) : raw[i] = "NUL"}
            IN  IF nul = {} THEN raw
                ELSE SubSeq(raw, 1, (CHOOSE i \in nul : \A j \in nul : i <= j) - 1)
    IN
    Dict({<<Mp4Mapped(k), tags[k].val>> :
             k \in {x \in DOMAIN tags : Mp4Mapped(x) = "SERATO_RELVOL"}}
         \cup {<<Mp4Mapped(k), split_nul_first(b64decode(tags[k].val))>> :
                  k \in {x \in DOMAIN tags : Mp4Mapped(x) = "SERATO_PLAYCOUNT"
                                             /\ CanB64Decode(tags[x].val)}}
         \cup {<<Mp4Mapped(k), b64decode(tags[k].val)>> :
                  k \in {x \in DOMAIN tags :
                            /\ Mp4Mapped(x) \notin {"", "SERATO_RELVOL", "SERATO_PLAYCOUNT"}
                            /\ CanB64Decode(tags[x].val)}}
         \cup {<<"GROUPING", tags[k].val>> : k \in {x \in DOMAIN tags : x = "(c)grp"}}
         \cup {<<"BPM", tags[k].val>> : k \in {x \in DOMAIN tags : x = "tmpo"}})

\* MetadataCloner.extract_serato_markers: the mapping of normalized name to bytes.
extract_serato_markers(file) ==
    IF file.kind = "none" THEN <<>>
    ELSE IF file.kind = "mp3" THEN (IF file.tagged /\ DOMAIN file.tags # {}
                                    THEN ExtractId3(file.tags) ELSE <<>>)
    ELSE IF file.kind = "flac" THEN (IF file.tagged /\ DOMAIN file.tags # {}
                                     THEN ExtractVorbis(file.tags) ELSE <<>>)
    ELSE IF file.tagged /\ DOMAIN file.tags # {} THEN ExtractMp4(file.tags) ELSE <<>>

\* inject_serato_markers into a FLAC: the Vorbis comments each marker is written as.
DescriptiveNames == {"KEY", "BPM", "COMPOSER", "GROUPING", "COMMENT", "GENRE", "LABEL", "RATING"}

VorbisLower(desc) ==
    CASE desc = "KEY" -> "key" [] desc = "BPM" -> "bpm" [] desc = "COMPOSER" -> "composer"
      [] desc = "GROUPING" -> "grouping" [] desc = "COMMENT" -> "comment"
      [] desc = "GENRE" -> "genre" [] desc = "LABEL" -> "label" [] desc = "RATING" -> "rating"
      [] desc = "SERATO_PLAYCOUNT" -> "serato_playcount"
      [] desc = "SERATO_RELVOL" -> "serato_relvol"

\* "serato" in desc.lower()
LowerHasSerato(desc) ==
    StartsWithSerato(desc) \/ VorbisIsSerato(desc) \/ desc \in {"SERATO_PLAYCOUNT", "SERATO_RELVOL"}

\* safe_key: the explicit names, else desc.replace(' ', '_').lower()
safe_key(desc) ==
    CASE desc = "Serato Autotags" -> "serato_autotags"
      [] desc = "Serato Markers2" -> "serato_markers_v2"
      [] desc = "Serato Markers V2" -> "serato_markers_v2"
      [] OTHER -> desc

VorbisWrites(markers) ==
    {<<VorbisLower(d), Field(markers[d])>> :
        d \in {x \in DOMAIN markers : x \in DescriptiveNames \cup {"SERATO_PLAYCOUNT", "SERATO_RELVOL"}}}
    \cup {<<"rating", Field(markers[d])>> : d \in {x \in DOMAIN markers : x = "POPM_serato.com"}}
    \cup {<<safe_key(d), Field(b64encode(markers[d]))>> :
             d \in {x \in DOMAIN markers :
                       /\ x \notin DescriptiveNames \cup {"SERATO_PLAYCOUNT", "SERATO_RELVOL",
                                                         "POPM_serato.com", "Serato Markers_"}
                       /\ LowerHasSerato(x)}}
    \cup {<<"serato_markers2", Field(b64encode(markers[d]))>> :
             d \in {x \in DOMAIN markers : x \in {"Serato Markers2", "Serato Markers V2",
                                                  "serato_markers_v2"}}}

\* out_desc: a name that starts with "serato_" becomes replace('_', ' ').title()
out_desc(desc) ==
    CASE desc = "serato_markers_v2" -> "Serato Markers V2"
      [] desc = "serato_markers2" -> "Serato Markers2"
      [] desc = "serato_markers_" -> "Serato Markers "
      [] desc = "serato_autotags" -> "Serato Autotags"
      [] desc = "serato_playcount" -> "Serato Playcount"
      [] desc = "serato_relvol" -> "Serato Relvol"
      [] OTHER -> desc

\* The key of an ID3 frame with a description: 'GEOB:<desc>', 'TXXX:<desc>'.
HashKey(id, desc) == id \o ":" \o desc

\* inject_serato_markers into an ID3 file: the frames added, each under its HashKey.
Id3Writes(markers) ==
    {<<"TKEY", Frame("TKEY", "", markers[d])>> : d \in {x \in DOMAIN markers : x = "KEY"}}
    \cup {<<"TBPM", Frame("TBPM", "", markers[d])>> : d \in {x \in DOMAIN markers : x = "BPM"}}
    \cup {<<"TCOM", Frame("TCOM", "", markers[d])>> : d \in {x \in DOMAIN markers : x = "COMPOSER"}}
    \cup {<<"TIT1", Frame("TIT1", "", markers[d])>> : d \in {x \in DOMAIN markers : x = "GROUPING"}}
    \cup {<<"COMM::eng", Frame("COMM", "", markers[d])>> : d \in {x \in DOMAIN markers : x = "COMMENT"}}
    \cup {<<"TCON", Frame("TCON", "", markers[d])>> : d \in {x \in DOMAIN markers : x = "GENRE"}}
    \cup {<<"TPUB", Frame("TPUB", "", markers[d])>> : d \in {x \in DOMAIN markers : x = "LABEL"}}
    \cup {<<HashKey("TXXX", d), Frame("TXXX", d, markers[d])>> :
             d \in {x \in DOMAIN markers : x \in {"SERATO_PLAYCOUNT", "SERATO_RELVOL"}}}
    \cup {<<"POPM:serato.com", Frame("POPM", "serato.com", markers[d])>> :
             d \in {x \in DOMAIN markers : x \in {"RATING", "POPM_serato.com"}
                                           /\ IsNumber(markers[x])}}
    \cup {<<HashKey("GEOB", out_desc(d)), Frame("GEOB", out_desc(d), markers[d])>> :
             d \in {x \in DOMAIN markers :
                       /\ x \notin DescriptiveNames \cup {"SERATO_PLAYCOUNT", "SERATO_RELVOL",
                                                         "POPM_serato.com", "TPUB"}
                       /\ LowerHasSerato(x)}}

\* MetadataCloner.inject_serato_markers: what it returns and the file it leaves. A
\* FLAC without comment block raises on the first assignment (caught: False); an ID3
\* file without tags and every other class are not supported.
inject_serato_markers(markers, file) ==
    IF DOMAIN markers = {} \/ file.kind = "none"
    THEN [returned |-> FALSE, file |-> file]
    ELSE IF file.kind = "flac"
    THEN IF file.tagged
         THEN [returned |-> TRUE,
               file |-> [file EXCEPT !.tags = Dict(VorbisWrites(markers)) @@ file.tags]]
         ELSE [returned |-> FALSE, file |-> file]
    ELSE IF file.kind = "mp3" /\ file.tagged
    THEN [returned |-> TRUE,
          file |-> [file EXCEPT !.tags = Dict(Id3Writes(markers)) @@ file.tags]]
    ELSE [returned |-> FALSE, file |-> file]

\* ------------------------------------------- the transplant, on its own
\* The original files: each container with some of the tags it may carry, Serato's
\* markers and a few descriptive tags, no two of which are extracted under one name
\* or written under one key; and a file mutagen does not recognise.
SourceFiles ==
    LET Cues == <<"cues">>
        Auto == <<"gain">>
        Mp3Tags ==
            (HashKey("GEOB", "Serato Markers2") :> Frame("GEOB", "Serato Markers2", Cues))
            @@ (HashKey("GEOB", "Serato Autotags") :> Frame("GEOB", "Serato Autotags", Auto))
            @@ ("TKEY" :> Frame("TKEY", "", <<"8A">>))
            @@ ("POPM:serato.com" :> Frame("POPM", "serato.com", <<"200">>))
        FlacTags ==
            ("serato_markers_v2" :> Field(b64encode(wrapper("Serato Markers2") \o Cues)))
            @@ ("serato_autotags" :> Field(b64encode(wrapper("Serato Autotags") \o Auto)))
            @@ ("key" :> Field(<<"8A">>))
            @@ ("rating" :> Field(<<"200">>))
        Mp4Tags ==
            ("----:com.serato.dj:markersv2"
                :> Field(b64encode(wrapper("Serato Markers2") \o Cues)))
            @@ ("----:com.serato.dj:playcount" :> Field(b64encode(<<"18", "NUL">>)))
            @@ ("----:com.serato.dj:relvol" :> Field(<<"0.0">>))
            @@ ("tmpo" :> Field(<<"128">>))
        Restrict(f, S) == [k \in S |-> f[k]]
    IN  {[kind |-> "mp3", tagged |-> TRUE, tags |-> Restrict(Mp3Tags, S)] :
            S \in SUBSET DOMAIN Mp3Tags}
        \cup {[kind |-> "flac", tagged |-> TRUE, tags |-> Restrict(FlacTags, S)] :
                 S \in SUBSET DOMAIN FlacTags}
        \cup {[kind |-> "mp4", tagged |-> TRUE, tags |-> Restrict(Mp4Tags, S)] :
                 S \in SUBSET DOMAIN Mp4Tags}
        \cup {[kind |-> "none", tagged |-> FALSE, tags |-> <<>>]}

\* The downloaded files: of any container, with an empty tag block or none.
FreshFiles ==
    {[kind |-> k, tagged |-> t, tags |-> <<>>] : k \in {"mp3", "flac", "mp4"}, t \in BOOLEAN}

MetaFrame ==
    UNCHANGED <<musicDir, staging, crates, playlists, remoteMode, tracks, mirrors,
                pendingAdds, syncArgs, syncQueue, todo, downloaded, prevSync, ops,
                faults, daemon, listed, cmds>>

\* MetadataCloner.extract_serato_markers(path): of the original, and of the target
\* once the markers were injected.
ExtractMarkers ==
    /\ pc \in {"idle", "injected"}
    /\ pc' = IF pc = "idle" THEN "extracted" ELSE "transplanted"
    /\ last' = IF pc = "idle"
               THEN [NoLast EXCEPT !.op = "extract_serato_markers",
                                   !.markers = extract_serato_markers(disk["A"])]
               ELSE [last EXCEPT !.op = "extract_serato_markers",
                                 !.second = extract_serato_markers(disk["B"])]
    /\ UNCHANGED disk
    /\ MetaFrame

\* MetadataCloner.inject_serato_markers(markers, target_path)
InjectMarkers ==
    /\ pc = "extracted"
    /\ pc' = "injected"
    /\ \E r \in {inject_serato_markers(last.markers, disk["B"])} :
          /\ disk' = [disk EXCEPT !["B"] = r.file]
          /\ last' = [last EXCEPT !.op = "inject_serato_markers", !.returned = r.returned]
    /\ MetaFrame

\* An original file A and a target B: a fresh download, or a copy of A.
InitMeta ==
    /\ \E a \in SourceFiles : \E b \in FreshFiles \cup {a} : disk = ("A" :> a) @@ ("B" :> b)
    /\ musicDir = "present"
    /\ staging = {}
    /\ crates = <<>>
    /\ playlists = <<>>
    /\ remoteMode = "ok"
    /\ tracks = <<>>
    /\ mirrors = <<>>
    /\ pendingAdds = {}
    /\ pc = "idle"
    /\ syncArgs = NoArgs
    /\ syncQueue = <<>>
    /\ todo = {}
    /\ downloaded = [earlier |-> {}, now |-> {}]
    /\ prevSync = NoSync
    /\ last = NoLast
    /\ ops = 0
    /\ listed = NoListing
    /\ cmds = 0
    /\ faults = 0
    /\ daemon = "off"

MetaNext == ExtractMarkers \/ InjectMarkers

SpecMeta == InitMeta /\ [][MetaNext]_vars

\* ------------------------------------------------------- the CSV track list
\* A CSV file as csv.reader yields it: the first row (the header, <<>> for an empty
\* file or a blank first line) and the rows after it, each a sequence of fields, a
\* field a sequence of characters. A blank line is the row <<>>.
None == [none |-> TRUE, val |-> <<>>]
Str(s) == [none |-> FALSE, val |-> s]

\* str.strip(): leading and trailing whitespace is removed.
str_strip(s) == strip(s, " ")

\* next((f for f in reader.fieldnames if f.lower() in accepted), None): the first
\* header whose lower-case form is accepted, "" for None.
FirstField(fieldnames, accepted) ==
    LET lower(f) == CASE f = "Title" -> "title"
                      [] f = "Artist" -> "artist"
                      [] OTHER -> f
        hits == {i \in 1..Len(fieldnames) : lower(fieldnames[i]) \in accepted}
    IN  IF hits = {} THEN ""
        ELSE fieldnames[CHOOSE i \in hits : \A j \in hits : i <= j]

\* csv.DictReader.__next__ followed by row.get(key, ''): dict(zip(fieldnames, row))
\* keeps the last field under a repeated name, and every header beyond the end of
\* a short row is then set to restval, which is None.
DictRow(fieldnames, row, key) ==
    LET beyond == {i \in (Len(row) + 1)..Len(fieldnames) : fieldnames[i] = key}
        within == {i \in 1..Len(fieldnames) : i <= Len(row) /\ fieldnames[i] = key}
    IN  IF beyond # {} THEN None
        ELSE IF within # {} THEN Str(row[CHOOSE i \in within : \A j \in within : j <= i])
        ELSE Str(<<>>)

\* The loop of parse_tracks over the rows from row i on; DictReader skips blank lines.
RECURSIVE ReadRows(_, _, _, _, _, _)
ReadRows(fieldnames, rows, i, track, artist, parsed) ==
    IF i > Len(rows) THEN [raised |-> "", tracks |-> parsed]
    ELSE IF rows[i] = <<>> THEN ReadRows(fieldnames, rows, i + 1, track, artist, parsed)
    ELSE LET t == DictRow(fieldnames, rows[i], track)
             a == DictRow(fieldnames, rows[i], artist)
         IN  IF t.none \/ a.none
             THEN [raised |-> "AttributeError", tracks |-> <<>>]   \* None.strip()
             ELSE LET track_name == str_strip(t.val)
                      artist_name == str_strip(a.val)
                  IN  ReadRows(fieldnames, rows, i + 1, track, artist,
                               IF track_name # <<>> /\ artist_name # <<>>
                               THEN Append(parsed, [track_name |-> track_name,
                                                    artist_name |-> artist_name])
                               ELSE parsed)

\* CSVHandler.parse_tracks: what it raises ("" when it returns) and what it returns.
parse_tracks(files, file_path) ==
    IF file_path \notin DOMAIN files THEN [raised |-> "FileNotFoundError", tracks |-> <<>>]
    ELSE LET f == files[file_path]
             track == FirstField(f.fieldnames, {"title", "track_name", "track"})
             artist == FirstField(f.fieldnames, {"artist", "artist_name"})
         IN  IF f.fieldnames = <<>> THEN [raised |-> "ValueError", tracks |-> <<>>]
             ELSE IF track = "" \/ artist = "" THEN [raised |-> "ValueError", tracks |-> <<>>]
             ELSE LET r == ReadRows(f.fieldnames, f.rows, 1, track, artist, <<>>)
                  IN  IF r.raised # "" THEN r
                      ELSE IF r.tracks = <<>> THEN [raised |-> "ValueError", tracks |-> <<>>]
                      ELSE r

\* ---------------------------------------------------- the parser, on its own
\* The files parse_tracks is given: headers of up to MaxColumns distinct names, up to
\* MaxRows rows of up to MaxColumns - 1 fields.
CsvFiles ==
    LET names == {"Title", "track", "Artist", "other"}
        fields == {<<>>, <<" ">>, <<" ", "x">>, <<"y", " ">>}
        headers == {h \in SeqsUpTo(names, MaxColumns) :
                       \A i, j \in 1..Len(h) : h[i] = h[j] => i = j}
    IN  {[fieldnames |-> h, rows |-> rs] :
            h \in headers, rs \in SeqsUpTo(SeqsUpTo(fields, MaxColumns - 1), MaxRows)}

CsvFile == "tracks.csv"

\* CSVHandler(CsvFile).parse_tracks()
CsvParseTracks ==
    /\ pc = "idle"
    /\ pc' = "parsed"
    /\ \E r \in {parse_tracks(disk, CsvFile)} :
          last' = [NoLast EXCEPT !.op = "parse_tracks", !.raised = r.raised,
                                 !.entries = r.tracks]
    /\ UNCHANGED disk
    /\ MetaFrame

InitCsv ==
    /\ \E f \in CsvFiles : disk \in {<<>>, CsvFile :> f}
    /\ musicDir = "present"
    /\ staging = {}
    /\ crates = <<>>
    /\ playlists = <<>>
    /\ remoteMode = "ok"
    /\ tracks = <<>>
    /\ mirrors = <<>>
    /\ pendingAdds = {}
    /\ pc = "idle"
    /\ syncArgs = NoArgs
    /\ syncQueue = <<>>
    /\ todo = {}
    /\ downloaded = [earlier |-> {}, now |-> {}]
    /\ prevSync = NoSync
    /\ last = NoLast
    /\ ops = 0
    /\ listed = NoListing
    /\ cmds = 0
    /\ faults = 0
    /\ daemon = "off"

SpecCsv == InitCsv /\ [][CsvParseTracks]_vars

\* ================================================================ claims
StatusOf(t) == [k \in DOMAIN t |-> t[k].status]
HasId(t, key) == key \in DOMAIN t /\ t[key].tidal_id # NoId
Unfindable(n) == search_track(n, FALSE) = NoId /\ search_track(n, TRUE) = NoId
\* The last step was a sync_mirror call that returned after running its pass: it
\* raised nothing and was not ended by a failed playlist creation.
AfterSyncMirror == last.op = "sync_mirror" /\ last.raised = "" /\ last.createOk

\* C1: a sync run right after a completed sync run with the same arguments, with no
\* change to crates, files or playlists in between and every remote read answered,
\* mutates no remote playlist and changes no mapping status: each of its sync_mirror
\* calls leaves the playlists and the status of every mapping as they were.
C1_SecondSyncChangesNothing ==
    [][(last'.op = "sync_mirror" /\ last'.again)
         => (playlists' = playlists /\ StatusOf(tracks') = StatusOf(tracks))]_vars

\* A second run over a crate with a matched track and a remote-only track.
C1_Witness ==
    /\ last.op = "sync_mirror" /\ last.again
    /\ last.found # <<>>
    /\ last.imported # {}
    /\ \E k \in DOMAIN tracks : tracks[k].status = "pending_download"

\* C2: the daemon loop (sync, then recover, again and again), on crates and a remote
\* playlist nobody else changes, with every download succeeding and a music
\* directory it can write to, reaches a state from which no mapping is
\* pending_download and no download is issued for a remote id already downloaded in
\* an earlier pass.
C2_Converges ==
    (musicDir # "unwritable") =>
        <>[](/\ \A k \in DOMAIN tracks : tracks[k].status # "pending_download"
             /\ ~(last.op = "recover_track" /\ last.again))

C4_PlaceholderForRemoteOnly ==
    AfterSyncMirror =>
        \A tidal_id \in Range(last.snapshot) \ Range(last.found) :
            /\ PlaceholderPath(tidal_id) \in DOMAIN tracks
            /\ tracks[PlaceholderPath(tidal_id)].tidal_id = tidal_id
            /\ tracks[PlaceholderPath(tidal_id)].status = "pending_download"
            /\ <<tidal_id, last.crate_path>> \in pendingAdds

\* The playlist holds a track no entry of the crate matched.
C4_Witness ==
    /\ AfterSyncMirror
    /\ Range(last.snapshot) \ Range(last.found) # {}
    /\ last.found # <<>>

\* C5: when a sync pass runs with a ceiling, the remote id of a crate track whose
\* known bitrate is above the ceiling is not added to the remote playlist, and no
\* mapping carrying that id is set to pending_download by the pass.
C5_CeilingExcludes ==
    (AfterSyncMirror /\ last.max_bitrate # NoKbps) =>
        \A key \in last.skipped :
            HasId(tracks, key) =>
                /\ tracks[key].tidal_id \notin Range(last.added)
                /\ \A k \in last.marked : tracks[k].tidal_id # tracks[key].tidal_id

\* C6: the ids sync_mirror adds to a playlist are none of the snapshot it read, and
\* none of the members the playlist has when the add call is made, also when the
\* snapshot was stale.
C6_NeverAddsMember ==
    last.op = "sync_mirror" =>
        \A i \in DOMAIN last.added :
            /\ last.added[i] \notin Range(last.snapshot)
            /\ last.added[i] \notin last.before

\* The engine asked for an id the playlist already held: its snapshot missed it.
C6_Witness ==
    /\ last.op = "sync_mirror"
    /\ \E i \in DOMAIN last.found :
          last.found[i] \in last.before /\ last.found[i] \notin Range(last.snapshot)

\* C7: when recovery has downloaded the file of a placeholder mapping, the file is
\* still at its place in the staging directory, its path is an entry of every crate
\* that had a pending addition for the remote id, no pending addition for the id is
\* left, and the mapping of the real path is synced.
C7_PlaceholderImported ==
    [][(last'.op = "recover_track" /\ last'.path.imp /\ last'.obtained)
         => LET real == Lstrip(StagingPath(last'.file))
            IN  /\ last'.file \in staging'
                /\ \A c \in get_pending_crate_additions(pendingAdds, last'.tidal_id) :
                      real \in Range(crates'[c])
                /\ get_pending_crate_additions(pendingAdds', last'.tidal_id) = {}
                /\ real \in DOMAIN tracks' /\ tracks'[real].status = "synced"]_vars

\* C8: when recovery replaces a file that exists by a download with another
\* extension and the target path holds a file too, both files are found under their
\* BACKUP- names afterwards, and the mapping of the old path is pending_cleanup with
\* the backup of the old file as its downloaded_path.
C8_UpgradeKeepsBackups ==
    (last.op = "recover_track" /\ last.upgrade /\ last.had_target /\ last.moved) =>
        /\ BackupOf(last.path) \in DOMAIN disk
        /\ BackupOf(last.final) \in DOMAIN disk
        /\ tracks[Lstrip(last.path)].status = "pending_cleanup"
        /\ tracks[Lstrip(last.path)].downloaded_path = BackupOf(last.path)

\* C9: when recovery has downloaded and moved the file of a pending mapping that is
\* no placeholder, no crate refers to the old path unless it is the final path, and
\* the track is synced, not failed, whatever the extension of the download.
C9_RecoveredIsSynced ==
    (last.op = "recover_track" /\ ~last.path.imp /\ last.moved) =>
        /\ last.final # last.path =>
              \A c \in DOMAIN crates : Lstrip(last.path) \notin Range(crates[c])
        /\ tracks[Lstrip(last.path)].status # "failed"
        /\ \/ tracks[Lstrip(last.path)].status = "synced"
           \/ /\ Lstrip(last.final) \in DOMAIN tracks
              /\ tracks[Lstrip(last.final)].status = "synced"

\* C10: a failure while recovering one track leaves that track failed and the rest
\* of the pending tracks of the pass still to be processed.
C10_FailureIsIsolated ==
    (last.op = "recover_track" /\ last.failure # "") =>
        /\ tracks[Lstrip(last.path)].status = "failed"
        /\ ~last.aborted

\* C13: a sync command typed while authenticate() fails starts nothing: run_sync returns
\* at once, no mirror is queued (so no crate is read and no remote call is made), and
\* the mappings, the mirrors, the pending crate additions, the playlists, the crates
\* and the files are as they were.
C13_AuthFailureIsFatal ==
    [][(remoteMode = "auth_fails" /\ ops' = ops + 1 /\ last'.op \in {"sync_start", "sync_nothing"})
         => /\ last'.op = "sync_nothing"
            /\ pc' = "idle" /\ syncQueue' = <<>>
            /\ tracks' = tracks /\ mirrors' = mirrors /\ pendingAdds' = pendingAdds
            /\ playlists' = playlists /\ crates' = crates /\ disk' = disk]_vars

\* A sync typed after the login expired, with an active mirror whose crate has entries
\* and mappings in the store.
C13_Witness ==
    /\ last.op = "sync_nothing" /\ remoteMode = "auth_fails"
    /\ \E i \in 1..Len(mirrors) :
          /\ mirrors[i].is_active
          /\ mirrors[i].crate_path \in DOMAIN crates
          /\ crates[mirrors[i].crate_path] # <<>>
    /\ DOMAIN tracks # {}

C12_StalePlaylistIdCleared ==
    (AfterSyncMirror
     /\ last.playlist_id \notin DOMAIN playlists
     /\ IdsToAdd(last.found, Range(last.snapshot)) # <<>>)
        => \A i \in 1..Len(mirrors) :
              mirrors[i].crate_path = last.crate_path => mirrors[i].playlist_id = NoPlaylist

\* The status changes the lifecycle of a mapping allows.
AllowedTransitions ==
    {<<"synced", "pending_download">>, <<"pending_download", "synced">>,
     <<"pending_download", "failed">>, <<"synced", "pending_cleanup">>}

\* C14: over sync, recover, force and cleanup, a mapping that changes status goes
\* synced -> pending_download, pending_download -> synced, pending_download -> failed
\* or synced -> pending_cleanup, and cleanup deletes pending_cleanup mappings only; a
\* failed or pending_cleanup mapping never goes back to synced or pending_download.
C14_LifecycleTransitions ==
    [][last'.op \in {"sync_mirror", "recover_track", "force", "cleanup"}
         => \A k \in DOMAIN tracks :
              IF k \in DOMAIN tracks'
              THEN \/ tracks'[k].status = tracks[k].status
                   \/ <<tracks[k].status, tracks'[k].status>> \in AllowedTransitions
              ELSE tracks[k].status = "pending_cleanup"]_vars

\* C15: in every reachable state, whatever sync, recover, force, cleanup, reset and
\* clear commands led to it, the status of every mapping is synced, pending_download,
\* pending_cleanup or failed.
C15_StatusInClosedSet ==
    \A k \in DOMAIN tracks :
        tracks[k].status \in {"synced", "pending_download", "pending_cleanup", "failed"}

\* After a sync, a failed recovery and a force: a failed and a forced mapping.
C15_Witness ==
    /\ last.op = "force" /\ last.acted
    /\ \E k \in DOMAIN tracks : tracks[k].status = "failed"
    /\ \E k \in DOMAIN tracks : tracks[k].status = "pending_download"

\* C16: upsert_track leaves the row of its path with the remote id and the isrc it
\* was given (null included), and with the bitrate and the display name it was
\* given unless that is null, in which case the stored one is kept; and no call of
\* upsert_track or update_track_status turns a stored bitrate or display name of any
\* row into null.
C16_UpsertKeepsBitrateAndName ==
    [][/\ last'.op = "upsert_track"
          => LET k == last'.path
                 had == k \in DOMAIN tracks
             IN  /\ k \in DOMAIN tracks'
                 /\ tracks'[k].tidal_id = last'.tidal_id
                 /\ tracks'[k].isrc = last'.isrc
                 /\ tracks'[k].bitrate =
                       (IF last'.bitrate # NoKbps THEN last'.bitrate
                        ELSE IF had THEN tracks[k].bitrate ELSE NoKbps)
                 /\ tracks'[k].display_name =
                       (IF last'.display_name # NoName THEN last'.display_name
                        ELSE IF had THEN tracks[k].display_name ELSE NoName)
       /\ \A k \in DOMAIN tracks :
             /\ k \in DOMAIN tracks'
             /\ tracks[k].bitrate # NoKbps => tracks'[k].bitrate # NoKbps
             /\ tracks[k].display_name # NoName => tracks'[k].display_name # NoName]_vars

\* An upsert with null bitrate, display name and isrc on a row that had all three: the
\* isrc is gone, the other two are kept.
C16_Witness ==
    /\ last.op = "upsert_track"
    /\ last.bitrate = NoKbps /\ last.display_name = NoName /\ last.isrc = NoName
    /\ tracks[last.path].bitrate # NoKbps
    /\ tracks[last.path].display_name # NoName
    /\ tracks[last.path].isrc = NoName
    /\ tracks[last.path].status # "synced"

\* C17: update_track_status on a path with a mapping sets its status, sets its
\* downloaded_path when one is given and keeps it otherwise, and changes no other
\* field and no other mapping; on a path without mapping it changes nothing.
C17_UpdateStatusTouchesOnlyStatus ==
    [][last'.op = "update_track_status"
         => LET k == last'.path
            IN  IF k \notin DOMAIN tracks THEN tracks' = tracks
                ELSE /\ DOMAIN tracks' = DOMAIN tracks
                     /\ \A j \in DOMAIN tracks \ {k} : tracks'[j] = tracks[j]
                     /\ tracks'[k] =
                           [tracks[k] EXCEPT
                              !.status = last'.status,
                              !.downloaded_path =
                                 IF last'.downloaded_path # NoPath
                                 THEN last'.downloaded_path ELSE @]]_vars

\* A status update without path on a row that has a downloaded_path, beside another
\* mapping.
C17_Witness ==
    /\ last.op = "update_track_status"
    /\ last.downloaded_path = NoPath
    /\ last.path \in DOMAIN tracks
    /\ tracks[last.path].downloaded_path # NoPath
    /\ tracks[last.path].status = "failed"
    /\ DOMAIN tracks # {last.path}

\* C18: rm on a valid index keeps every row of mirror_config in its place, clears the
\* active flag of the row it designates and leaves the other rows as they are; and
\* sync_mirror is only ever called on a mirror that is active, so an inactive mirror
\* has no crate read, no remote call and no mapping change made for it.
C18_InactiveMirrorIsSkipped ==
    [][/\ (last'.op = "rm" /\ last'.acted)
          => /\ CratePathsOf(mirrors') = CratePathsOf(mirrors)
             /\ mirrors[last'.index + 1].crate_path = last'.crate_path
             /\ ~mirrors'[last'.index + 1].is_active
             /\ \A i \in 1..Len(mirrors) :
                   i # last'.index + 1 => mirrors'[i] = mirrors[i]
             /\ tracks' = tracks /\ playlists' = playlists /\ crates' = crates
       /\ (pc = "sync" /\ last'.op = "sync_mirror")
          => \E i \in 1..Len(mirrors) :
                mirrors[i].crate_path = last'.crate_path /\ mirrors[i].is_active
       /\ pc' = "sync"
          => \A q \in 1..Len(syncQueue') : \E i \in 1..Len(mirrors') :
                mirrors'[i].crate_path = syncQueue'[q].crate_path /\ mirrors'[i].is_active]_vars

\* Mirror A was deactivated by rm, and a sync run visited mirror B alone.
C18_Witness ==
    /\ last.op = "sync_mirror" /\ pc = "idle"
    /\ Len(mirrors) = 2
    /\ mirrors[1].crate_path = "A.crate" /\ ~mirrors[1].is_active
    /\ "A.crate" \in DOMAIN crates
    /\ last.planned = <<"B.crate">>
    /\ last.found # <<>>

\* C19: discover leaves every row of mirror_config that was there as it was (crate
\* path, playlist id, active flag, position), appends one inactive row without
\* playlist id for each crate file that had none, and so changes nothing when it is
\* repeated.
C19_DiscoverInsertsIfAbsent ==
    [][last'.op = "discover"
         => /\ Len(mirrors') >= Len(mirrors)
            /\ \A i \in 1..Len(mirrors) : mirrors'[i] = mirrors[i]
            /\ \A i \in (Len(mirrors) + 1)..Len(mirrors') :
                  /\ mirrors'[i].crate_path \in DOMAIN crates
                  /\ ~mirrors'[i].is_active
                  /\ mirrors'[i].playlist_id = NoPlaylist
            /\ \A i, j \in 1..Len(mirrors') :
                  mirrors'[i].crate_path = mirrors'[j].crate_path => i = j
            /\ DOMAIN crates \subseteq Range(CratePathsOf(mirrors'))
            /\ DOMAIN crates \subseteq Range(CratePathsOf(mirrors)) => mirrors' = mirrors]_vars

\* Discovery registered crate B beside mirror A, which is still active and still
\* mirrored to playlist 1.
C19_Witness ==
    /\ last.op = "discover" /\ last.acted
    /\ Len(mirrors) = 2
    /\ mirrors[1] = [crate_path |-> "A.crate", playlist_id |-> 1, is_active |-> TRUE]
    /\ mirrors[2] = [crate_path |-> "B.crate", playlist_id |-> NoPlaylist, is_active |-> FALSE]

\* C20: get_mirrors yields the rows of mirror_config in insertion order, and a row
\* that is upserted (add, rm, the playlist id sync_mirror persists) stays where it
\* is; so, while no row is inserted or deleted, the index `list` printed beside a
\* crate, with or without --active, designates that crate in add, rm, reset and match.
C20_ListIndexIsStable ==
    [][/\ (last'.op \in {"add", "rm"} \/ (last'.op = "sync_mirror" /\ last'.raised = ""))
          => CratePathsOf(mirrors') = CratePathsOf(mirrors)
       /\ (last'.op \in {"add", "rm", "reset", "match"} /\ listed.valid)
          => \A e \in listed.shown :
                e[1] = last'.index => last'.crate_path = e[2]]_vars

\* list showed crate B at index 1 before the sync that persisted its playlist id, and
\* the rm 1 typed afterwards deactivated crate B.
C20_Witness ==
    /\ last.op = "rm" /\ last.acted
    /\ last.index = 1 /\ last.crate_path = "B.crate"
    /\ listed.valid /\ <<1, "B.crate">> \in listed.shown
    /\ listed.rows[2].playlist_id = NoPlaylist
    /\ DOMAIN playlists = {1, 2}

\* C21: a sync pass over an active mirror without playlist id creates exactly one
\* remote playlist and records its id on the mirror's row; a pass over a mirror whose
\* row holds a playlist id creates none; and when the creation fails the pass ends
\* with the mappings, the mirrors, the playlists and the pending additions unchanged.
C21_PlaylistCreatedLazilyOnce ==
    [][last'.op = "sync_mirror"
         => LET mirror == Head(syncQueue)
                i == MirrorIndex(mirrors', mirror.crate_path)
                fresh == DOMAIN playlists' \ DOMAIN playlists
            IN  IF last'.raised # "" \/ mirror.playlist_id # NoPlaylist
                THEN fresh = {} /\ ~last'.created
                ELSE IF last'.createOk
                THEN /\ last'.created
                     /\ Cardinality(fresh) = 1
                     /\ i # 0
                     /\ mirrors'[i].playlist_id \in fresh
                     /\ mirrors'[i].is_active
                ELSE /\ ~last'.created
                     /\ fresh = {}
                     /\ tracks' = tracks /\ mirrors' = mirrors
                     /\ playlists' = playlists /\ pendingAdds' = pendingAdds]_vars

\* Crate B was added without playlist; a first sync created its playlist, and the
\* second sync of B, with the id on its row, has just ended without creating one.
C21_Witness ==
    /\ last.op = "sync_mirror" /\ last.crate_path = "B.crate" /\ last.raised = ""
    /\ ~last.created
    /\ last.playlist_id # NoPlaylist /\ last.playlist_id \in DOMAIN playlists
    /\ \E i \in DOMAIN mirrors : /\ mirrors[i].crate_path = "B.crate"
                                  /\ mirrors[i].playlist_id = last.playlist_id

\* A pass over crate B whose playlist creation failed.
C21_CreationFailed ==
    /\ last.op = "sync_mirror" /\ last.crate_path = "B.crate" /\ ~last.createOk

\* An entry holds a path when the two are equal up to leading separators, which is
\* how replace_track_path is specified to compare them.
Holds(entry, path) == lstrip(entry, SLASH) = lstrip(path, SLASH)

\* C22: on a valid crate file none of whose track entries holds the old path,
\* replace_track_path returns False and the bytes of the file stay as they were.
C22_ReplaceOfAbsentPathIsIdentity ==
    [][(last'.op = "replace_track_path" /\ CodecFile \in DOMAIN crates)
         => \A v \in ValidCrates :
               (/\ crates[CodecFile] = v.bytes
                /\ \A i \in DOMAIN v.tracks : ~Holds(v.tracks[i], last'.old_path))
               => (~last'.returned /\ crates'[CodecFile] = v.bytes)]_vars

\* A valid file of two blocks with a track entry and a decoy of the old path, after
\* a replace_track_path of a path no entry holds.
C22_Witness ==
    /\ last.op = "replace_track_path" /\ ops = 1 /\ ~last.returned
    /\ CodecFile \in DOMAIN crates
    /\ \E v \in ValidCrates :
          /\ last.content = v.bytes /\ crates[CodecFile] = v.bytes
          /\ Len(v.tracks) = 1
          /\ Len(v.blocks) = 2
          /\ ~Holds(v.tracks[1], last.old_path)

\* The UTF-16BE byte length of a string of code points below 65536.
Utf16Len(s) == 2 * Len(s)

RECURSIVE SumOver(_, _)
SumOver(f, S) == IF S = {} THEN 0 ELSE LET x == CHOOSE y \in S : TRUE
                                       IN  f[x] + SumOver(f, S \ {x})

\* C23 as stated, with paths compared without leading separators: on a valid crate
\* file with an entry that holds the old path, replace_track_path followed by
\* get_tracks yields the new path at the entries that held the old one and the other
\* entries unchanged in the same order, and the length of the file changes by the
\* UTF-16BE byte length of the new path minus that of the old path.
C23_ReplaceThenParse_AsStated ==
    [][(last'.op = "replace_track_path" /\ CodecFile \in DOMAIN crates)
         => \A v \in ValidCrates :
               (/\ crates[CodecFile] = v.bytes
                /\ \E i \in DOMAIN v.tracks : Holds(v.tracks[i], last'.old_path))
               => LET after == get_tracks(crates'[CodecFile])
                  IN  /\ Len(after.tracks) = Len(v.tracks)
                      /\ \A i \in DOMAIN v.tracks :
                            IF Holds(v.tracks[i], last'.old_path)
                            THEN Holds(after.tracks[i], last'.new_path)
                            ELSE after.tracks[i] = v.tracks[i]
                      /\ Len(crates'[CodecFile]) - Len(v.bytes)
                            = Utf16Len(lstrip(last'.new_path, SLASH))
                              - Utf16Len(lstrip(last'.old_path, SLASH))]_vars

\* C23, amended: on a valid crate file with an entry that holds the old path
\* (compared without leading separators), replace_track_path returns True, and
\* get_tracks afterwards yields the new path without its leading separators at every
\* entry that held the old path and every other entry unchanged in the same order;
\* the length of the file changes by the sum, over the replaced entries, of the
\* UTF-16BE byte length of the new path without leading separators minus the byte
\* length of the value the entry stored (its leading separator and NUL padding
\* included).
C23_ReplaceThenParse ==
    [][(last'.op = "replace_track_path" /\ CodecFile \in DOMAIN crates)
         => \A v \in ValidCrates :
               (/\ crates[CodecFile] = v.bytes
                /\ \E i \in DOMAIN v.tracks : Holds(v.tracks[i], last'.old_path))
               => LET after == get_tracks(crates'[CodecFile])
                      hit == {i \in DOMAIN v.tracks : Holds(v.tracks[i], last'.old_path)}
                      norm_new_path == lstrip(last'.new_path, SLASH)
                      delta == [i \in hit |-> Utf16Len(norm_new_path) - Utf16Len(v.stored[i])]
                  IN  /\ last'.returned
                      /\ ~after.swallowed
                      /\ after.tracks = [i \in DOMAIN v.tracks |->
                                            IF i \in hit THEN norm_new_path ELSE v.tracks[i]]
                      /\ Len(crates'[CodecFile]) - Len(v.bytes) = SumOver(delta, hit)]_vars

\* A valid file of two track entries, "a" padded with a NUL and "b", after
\* replace_track_path("/a", "/bb") rewrote the first and copied the second.
C23_Witness ==
    /\ last.op = "replace_track_path" /\ last.returned
    /\ last.old_path = <<SLASH, 97>> /\ last.new_path = <<SLASH, 98, 98>>
    /\ \E v \in ValidCrates :
          /\ last.content = v.bytes
          /\ v.stored = <<(<<97, NUL>>), (<<98>>)>>
    /\ get_tracks(crates[CodecFile]).tracks = <<(<<98, 98>>), (<<98>>)>>

\* The entries of the blocks of bs that lie whole within the first n bytes.
RECURSIVE TracksWithin(_, _)
TracksWithin(bs, n) ==
    IF bs = <<>> \/ Len(Head(bs).bytes) > n THEN <<>>
    ELSE Head(bs).tracks \o TracksWithin(Tail(bs), n - Len(Head(bs).bytes))

\* C24: get_tracks on a crate file that is a valid file cut short raises nothing and
\* returns exactly the entries of the blocks that precede the block the cut falls
\* in, in their order.
C24_TruncatedParseReturnsEntriesBefore ==
    [][(last'.op = "get_tracks" /\ CodecFile \in DOMAIN crates)
         => /\ last'.raised = ""
            /\ \A v \in ValidCrates :
                  LET n == Len(crates[CodecFile])
                  IN  (n <= Len(v.bytes) /\ crates[CodecFile] = Slice(v.bytes, 0, n))
                      => last'.entries = TracksWithin(v.blocks, n)]_vars

\* The cut at byte n falls inside a block of bs: in its header or in its value.
RECURSIVE CutsABlock(_, _)
CutsABlock(bs, n) ==
    IF bs = <<>> \/ n = 0 THEN FALSE
    ELSE IF Len(Head(bs).bytes) > n THEN TRUE
    ELSE CutsABlock(Tail(bs), n - Len(Head(bs).bytes))

\* C25: replace_track_path on a crate file that is a valid file cut inside a block (a
\* truncated header, or a length field that runs past the end of the data) returns
\* False and leaves the bytes of the file as they were, whether or not an entry
\* before the cut holds the old path.
C25_ReplaceLeavesMalformedFileAlone ==
    [][(last'.op = "replace_track_path" /\ CodecFile \in DOMAIN crates)
         => \A v \in ValidCrates :
               LET n == Len(crates[CodecFile])
               IN  (/\ n <= Len(v.bytes)
                    /\ crates[CodecFile] = Slice(v.bytes, 0, n)
                    /\ CutsABlock(v.blocks, n))
                   => (~last'.returned /\ crates'[CodecFile] = crates[CodecFile])]_vars

\* C26: add_track_to_crate(path) on a crate file returns True and leaves a file whose
\* entries are the entries it had, in their order, followed by the given path.
C26_AppendTrackAddsLastEntry ==
    [][(last'.op = "add_track_to_crate" /\ CodecFile \in DOMAIN crates)
         => \A v \in ValidCrates :
               crates[CodecFile] = v.bytes
               => /\ last'.raised = ""
                  /\ last'.returned
                  /\ get_tracks(crates'[CodecFile]).tracks
                        = Append(v.tracks, lstrip(last'.new_path, SLASH))]_vars

\* C27: on a valid crate file get_tracks returns, in the order of the top-level
\* blocks, the decoded path of every 'otrk' block with a 'ptrk' child, and nothing
\* for a block or a child of another tag, whose value is skipped by its length
\* field even when it reads like a track entry or a path block.
C27_ParseReturnsTrackEntriesInOrder ==
    [][(last'.op = "get_tracks" /\ CodecFile \in DOMAIN crates)
         => \A v \in ValidCrates :
               crates[CodecFile] = v.bytes
               => /\ last'.raised = ""
                  /\ ~last'.swallowed
                  /\ last'.entries = v.tracks]_vars

\* get_tracks has returned the one entry "a" of a valid file of two blocks, the
\* other a block without entry whose value reads like a block with a path.
C27_Witness ==
    /\ last.op = "get_tracks" /\ last.raised = ""
    /\ last.entries = <<(<<97>>)>>
    /\ \E v \in ValidCrates :
          /\ last.content = v.bytes
          /\ Len(v.blocks) = 2
          /\ \E i \in 1..2 : v.blocks[i].tracks = <<>> /\ Len(v.blocks[i].bytes) > 20

\* C28: when the markers extracted from a file A were injected into a file B of a
\* container inject_serato_markers supports, extracting from B returns every name of
\* the first extraction with the same bytes.
C28_MetadataRoundTrip ==
    (pc = "transplanted" /\ last.returned)
        => \A k \in DOMAIN last.markers :
              k \in DOMAIN last.second /\ last.second[k] = last.markers[k]

\* C29: in the daemon, every pass is eventually followed by the start of another
\* iteration unless the user interrupts the loop: whenever the recovery of a pass has
\* been called, also when an exception then leaves it (the target directory cannot
\* be made), the daemon is later at the top of its loop again, or stopped by Ctrl+C.
C29_DaemonSurvivesFailedPass ==
    /\ (daemon = "sleep") ~> (daemon \in {"sync", "stopped"})
    /\ (last.op = "recover_track" /\ last.aborted) ~> (daemon \in {"sync", "stopped"})
    /\ [][daemon' = "stopped" => last'.op = "interrupt"]_vars

\* The recovery of a pass raised out of run_recovery, the daemon slept, and it is at
\* the top of its loop for the next iteration.
C29_Witness ==
    /\ daemon = "sync" /\ pc = "idle"
    /\ last.op = "recover_track" /\ last.aborted /\ last.failure = "mkdir"

\* C30: a reset that acts on an active mirror deletes the mapping of every track the
\* mirror's crate lists (the mapping sync_mirror keeps under the entry's path without
\* leading separators), leaves every other mapping as it was, and leaves the mirror
\* rows unchanged, the mirror active and holding its playlist id.
C30_ResetClearsCrateMappings ==
    [][(last'.op = "reset" /\ last'.acted)
         => LET i == MirrorIndex(mirrors, last'.crate_path)
                listed_keys == {Lstrip(e) : e \in Range(crates[last'.crate_path])}
            IN  /\ \A k \in listed_keys : k \notin DOMAIN tracks'
                /\ \A k \in DOMAIN tracks \ listed_keys :
                      k \in DOMAIN tracks' /\ tracks'[k] = tracks[k]
                /\ mirrors' = mirrors
                /\ i # 0 /\ mirrors'[i].is_active]_vars

\* The same, for the crates whose entries carry no leading separator.
C30_ResetClearsUnslashedCrate ==
    [][(last'.op = "reset" /\ last'.acted
        /\ \A e \in Range(crates[last'.crate_path]) : ~e.slash)
         => LET listed_keys == Range(crates[last'.crate_path])
            IN  /\ \A k \in listed_keys : k \notin DOMAIN tracks'
                /\ \A k \in DOMAIN tracks \ listed_keys :
                      k \in DOMAIN tracks' /\ tracks'[k] = tracks[k]
                /\ mirrors' = mirrors]_vars

\* reset 1 acted on crate B, which lists /1.mp3, and the mapping of 1.mp3 is still there.
C30_MappingSurvivesReset ==
    /\ last.op = "reset" /\ last.acted /\ last.crate_path = "B.crate"
    /\ TrackPath(1, "mp3") \in DOMAIN tracks

\* The rows of the file that hold a non-blank track field and a non-blank artist
\* field, in file order, each with its two trimmed fields.
ValidRows(f) ==
    LET track == FirstField(f.fieldnames, {"title", "track_name", "track"})
        artist == FirstField(f.fieldnames, {"artist", "artist_name"})
        column(key) == CHOOSE i \in 1..Len(f.fieldnames) : f.fieldnames[i] = key
        field(row, key) == IF column(key) <= Len(row) THEN str_strip(row[column(key)]) ELSE <<>>
        valid == SelectSeq(f.rows, LAMBDA row :
                     field(row, track) # <<>> /\ field(row, artist) # <<>>)
    IN  [i \in 1..Len(valid) |-> [track_name |-> field(valid[i], track),
                                  artist_name |-> field(valid[i], artist)]]

HasBothColumns(f) ==
    /\ FirstField(f.fieldnames, {"title", "track_name", "track"}) # ""
    /\ FirstField(f.fieldnames, {"artist", "artist_name"}) # ""

\* C31: parse_tracks raises FileNotFoundError when the file does not exist, ValueError
\* when the header has no track column or no artist column, ValueError when no row has
\* a non-blank track and a non-blank artist; otherwise it returns exactly those rows,
\* trimmed, in file order (so never an empty list).
C31_ParseTracksReturnsValidRows ==
    last.op = "parse_tracks" =>
        IF CsvFile \notin DOMAIN disk
        THEN last.raised = "FileNotFoundError"
        ELSE IF ~HasBothColumns(disk[CsvFile]) \/ ValidRows(disk[CsvFile]) = <<>>
        THEN last.raised = "ValueError"
        ELSE last.raised = "" /\ last.entries = ValidRows(disk[CsvFile])

\* The same, for the files every row of which is blank or reaches the last column.
C31_ParseTracksOfFullRows ==
    (/\ last.op = "parse_tracks" /\ CsvFile \in DOMAIN disk
     /\ \A i \in 1..Len(disk[CsvFile].rows) :
           Len(disk[CsvFile].rows[i]) \in {0} \cup (Len(disk[CsvFile].fieldnames)..MaxColumns))
        => IF ~HasBothColumns(disk[CsvFile]) \/ ValidRows(disk[CsvFile]) = <<>>
           THEN last.raised = "ValueError"
           ELSE last.raised = "" /\ last.entries = ValidRows(disk[CsvFile])

\* A file with header Title,Artist whose only row holds a track name and no more.
C31_ShortRowRaises ==
    /\ last.op = "parse_tracks" /\ last.raised = "AttributeError"
    /\ CsvFile \in DOMAIN disk
    /\ disk[CsvFile].fieldnames = <<"Title", "Artist">>
    /\ disk[CsvFile].rows = << << <<" ", "x">> >> >>

\* The audio files of the staging directory whose stem is that of the path, in any case.
StagedFor(stg, path) ==
    {f \in stg : f.tag = "staged" /\ f.ext \in AllowedExts /\ f.n = path.n}

\* C32: a turn of recover on a local path for which the staging directory holds a
\* file with an allowed suffix and the same stem (whatever its case) issues no
\* download, and, unless the turn ended before the scan (the mkdir of the target
\* directory failed), the file it obtains is one of those staged files.
C32_StagedFileMeansNoDownload ==
    [][(last'.op = "recover_track" /\ ~last'.path.imp /\ StagedFor(staging, last'.path) # {})
         => /\ ~last'.issued
            /\ downloaded' = downloaded
            /\ ~last'.aborted
                 => (last'.obtained /\ last'.file \in StagedFor(staging, last'.path))]_vars

\* The staged 1.FLAC was taken for track 1, no download was run, and the file is now
\* at the target path.
C32_Witness ==
    /\ last.op = "recover_track" /\ last.path = FullPath(TrackPath(1, "mp3"))
    /\ ~last.issued /\ last.obtained /\ last.moved
    /\ last.file = StagedFile(1, "flac", TRUE)
    /\ disk[FullPath(TrackPath(1, "flac"))] = StagedFile(1, "flac", TRUE)

\* No track id occurs twice in the list.
NoRepeat(s) == \A i, j \in 1..Len(s) : s[i] = s[j] => i = j

\* C33: a sync_mirror pass leaves every remote playlist that held no track id twice
\* holding no track id twice.
C33_PassAddsNoIdTwice ==
    [][last'.op = "sync_mirror"
         => \A p \in DOMAIN playlists \cap DOMAIN playlists' :
               NoRepeat(playlists[p]) => NoRepeat(playlists'[p])]_vars

\* Crate A lists the same path twice, its playlist was empty, and the pass added the
\* id of that path twice.
C33_SamePathTwice ==
    /\ AfterSyncMirror /\ last.crate_path = "A.crate"
    /\ Len(crates["A.crate"]) = 2 /\ crates["A.crate"][1] = crates["A.crate"][2]
    /\ last.before = {} /\ Len(last.added) = 2 /\ last.added[1] = last.added[2]
    /\ ~NoRepeat(playlists[1])

\* C34: an add that follows the rm of the same mirror leaves on its row the playlist
\* id the row held before the rm.
C34_RmThenAddKeepsPlaylistId ==
    [][(/\ last.op = "rm" /\ last.acted
        /\ last'.op = "add" /\ last'.acted /\ last'.crate_path = last.crate_path)
         => LET i == MirrorIndex(mirrors', last'.crate_path)
            IN  i # 0 /\ mirrors'[i].is_active /\ mirrors'[i].playlist_id = last.playlist_id]_vars

\* Crate A, mirrored to playlist 1, was deactivated and activated again, and the next
\* sync created a second playlist for it.
C34_SecondPlaylistCreated ==
    /\ last.op = "sync_mirror" /\ last.crate_path = "A.crate" /\ last.created
    /\ 1 \in DOMAIN playlists
    /\ mirrors[MirrorIndex(mirrors, "A.crate")].playlist_id \notin {1, NoPlaylist}

\* C35: a sync_mirror pass registers no placeholder and no pending crate addition for
\* a remote id that the mapping of an entry of the crate carries, also when the pass
\* skipped that entry for its bitrate.
C35_NoPlaceholderForCachedId ==
    [][last'.op = "sync_mirror"
         => \A i \in DOMAIN crates[last'.crate_path] :
              LET key == Lstrip(crates[last'.crate_path][i])
              IN  HasId(tracks', key)
                    => /\ tracks'[key].tidal_id \notin last'.imported
                       /\ <<tracks'[key].tidal_id, last'.crate_path>>
                             \notin pendingAdds' \ pendingAdds]_vars

\* The same, for the entries the pass did not skip for their bitrate.
C35_NoPlaceholderUnlessSkipped ==
    [][last'.op = "sync_mirror"
         => \A i \in DOMAIN crates[last'.crate_path] :
              LET key == Lstrip(crates[last'.crate_path][i])
              IN  (HasId(tracks', key) /\ key \notin last'.skipped)
                    => tracks'[key].tidal_id \notin last'.imported]_vars

\* A pass with a ceiling skipped 1.mp3, whose mapping carries remote id 1, and
\* registered the placeholder TIDAL_IMPORT:1 and a pending addition to crate A.
C35_PlaceholderForSkippedTrack ==
    /\ AfterSyncMirror /\ last.max_bitrate # NoKbps /\ last.crate_path = "A.crate"
    /\ TrackPath(1, "mp3") \in last.skipped
    /\ tracks[TrackPath(1, "mp3")].tidal_id = 1
    /\ 1 \in last.imported
    /\ PlaceholderPath(1) \in DOMAIN tracks
    /\ <<1, "A.crate">> \in pendingAdds

\* C36: a turn of recover destroys no file: what a path of the disk held before the
\* turn is held afterwards by that path or by its BACKUP- name, also when that
\* BACKUP- name was taken already.
C36_RecoverKeepsEveryFile ==
    [][last'.op = "recover_track"
         => \A p \in DOMAIN disk :
               \E q \in {p, BackupOf(p)} : q \in DOMAIN disk' /\ disk'[q] = disk[p]]_vars

\* The same, for the turns that find no BACKUP- file of the names they rename.
C36_RecoverKeepsFilesWithoutOldBackup ==
    [][(/\ last'.op = "recover_track"
        /\ \A p \in DOMAIN disk : p.bk => ~(last'.had_original \/ last'.had_target))
         => \A p \in DOMAIN disk :
               \E q \in {p, BackupOf(p)} : q \in DOMAIN disk' /\ disk'[q] = disk[p]]_vars

\* BACKUP-1.mp3 held the user's older file; the recovery of 1.mp3 renamed the present
\* 1.mp3 onto it, and the older file is nowhere on disk.
C36_OlderBackupOverwritten ==
    /\ last.op = "recover_track" /\ last.path = FullPath(TrackPath(1, "mp3"))
    /\ BackupOf(FullPath(TrackPath(1, "mp3"))) \in DOMAIN disk
    /\ disk[BackupOf(FullPath(TrackPath(1, "mp3")))] = OrigFile(1, "mp3")
    /\ \A p \in DOMAIN disk : disk[p].tag # "older"

\* C37: no step of a sync pass or of a recover pass changes or clears the remote id
\* a mapping carries: the mapping is there afterwards, with the same id.
C37_CachedIdIsStable ==
    [][last'.op \in {"sync_start", "sync_nothing", "sync_mirror", "recover_start", "recover_track"}
         => \A k \in DOMAIN tracks :
               tracks[k].tidal_id # NoId
                 => (k \in DOMAIN tracks' /\ tracks'[k].tidal_id = tracks[k].tidal_id)]_vars

\* Recover replaced the file of a path whose mapping carried a remote id, set it to
\* synced, and the mapping carries the id the download was issued for.
C37_Witness ==
    /\ last.op = "recover_track" /\ last.issued /\ last.moved /\ ~last.path.imp
    /\ last.tidal_id # NoId
    /\ tracks[Lstrip(last.path)].tidal_id = last.tidal_id
    /\ tracks[Lstrip(last.path)].status = "synced"

\* C38: every download a turn of recover issues is for the remote id, not null, of a
\* mapping that was pending_download when the turn began.
C38_DownloadsHaveAnId ==
    [][(last'.op = "recover_track" /\ last'.issued)
         => /\ last'.tidal_id # NoId
            /\ Lstrip(last'.path) \in DOMAIN tracks
            /\ tracks[Lstrip(last'.path)].tidal_id = last'.tidal_id
            /\ tracks[Lstrip(last'.path)].status = "pending_download"]_vars

\* The same, for the mappings that carry a remote id.
C38_DownloadsOfMappedTracks ==
    [][(/\ last'.op = "recover_track" /\ last'.issued
        /\ Lstrip(last'.path) \in DOMAIN tracks => tracks[Lstrip(last'.path)].tidal_id # NoId)
         => /\ last'.tidal_id # NoId
            /\ Lstrip(last'.path) \in DOMAIN tracks
            /\ tracks[Lstrip(last'.path)].tidal_id = last'.tidal_id
            /\ tracks[Lstrip(last'.path)].status = "pending_download"]_vars

\* A sync with a ceiling stored 1.mp3 with its bitrate and no remote id, force set it
\* to pending_download, and recover ran the download command for the id None.
C38_DownloadOfNone ==
    /\ last.op = "recover_track" /\ last.issued /\ last.tidal_id = NoId
    /\ last.path = FullPath(TrackPath(1, "mp3"))
    /\ tracks[TrackPath(1, "mp3")].bitrate # NoKbps
    /\ tracks[TrackPath(1, "mp3")].status = "failed"

\* C39: an interrupt at any point of a daemon iteration stops the daemon; once it
\* has come, the daemon stays stopped and starts no further sync or recover pass.
C39_InterruptStopsDaemon ==
    [](last.op = "interrupt" => [](daemon = "stopped"))

\* An interrupt that comes outside a turn of run_recovery stops the daemon for good.
C39_InterruptOutsideRecoverStopsDaemon ==
    []((last.op = "interrupt" /\ daemon = "stopped") => [](daemon = "stopped"))

\* The interrupt came while a track was being recovered: run_recovery has returned
\* and the loop goes on to its sleep and to the next iteration.
C39_InterruptSwallowed ==
    last.op = "interrupt" /\ daemon = "sleep" /\ pc = "idle" /\ todo = {}

====
